---- MODULE Spec2Model ----
(***************************************************************************)
(* Model of the panel-splitter tiling engine: the grid planner             *)
(* (lib/svg/grid.ts), the tile clipper and batch loop (lib/svg/tiler.ts),  *)
(* the mark placer (lib/svg/marks.ts), the parser (lib/svg/parser.ts) and  *)
(* the App component that drives them (App.tsx).                           *)
(*                                                                         *)
(* Conventions                                                             *)
(*  - a nullable value of the program (T | null) is a sequence of length   *)
(*    at most one: None is null, Some(v) is the value v;                   *)
(*  - strings the program builds (labels, ids) are sequences of one-       *)
(*    character strings, built digit by digit as String() and padStart()   *)
(*    build them;                                                          *)
(*  - lengths are integers (millimetres); a native x coordinate of a       *)
(*    document is kept as its numerator over detectedWidthMm, a native y   *)
(*    coordinate as its numerator over detectedHeightMm, so that the       *)
(*    divisions by designScaleX / designScaleY are exact.                  *)
(***************************************************************************)
EXTENDS Integers, Sequences, FiniteSets, TLC

VARIABLES
    svgInfo,           \* App state: SVGInfo | null
    settings,          \* App state: Settings
    gridInfo,          \* App state: GridInfo | null
    processedTiles,    \* App state: TileInfo[]
    validationErrors,  \* App state: ValidationError[]
    processingState,   \* App state: ProcessingState
    cancelRef,         \* App ref: cancelRef.current
    pc,                \* position of the pending async handler
    run,               \* closure and locals of the pending handleGenerate call
    lastOp,            \* history: the handler or step that ran last
    arg,               \* direct-call harness: arguments of the call
    ret                \* direct-call harness: outcome of the call, or None

vars == <<svgInfo, settings, gridInfo, processedTiles, validationErrors,
          processingState, cancelRef, pc, run, lastOp, arg, ret>>

appVars == <<svgInfo, settings, gridInfo, processedTiles, validationErrors,
             processingState, cancelRef, pc, run, lastOp>>

None == <<>>
Some(v) == <<v>>

Min(a, b) == IF a < b THEN a ELSE b
Max(a, b) == IF a > b THEN a ELSE b

\* Math.ceil(a / b) for b > 0
Ceil(a, b) == -((-a) \div b)

(***************************************************************************)
(* Strings                                                                 *)
(***************************************************************************)
DigitChar == <<"0", "1", "2", "3", "4", "5", "6", "7", "8", "9">>

RECURSIVE Str(_)
\* String(n) for an integer n >= 0
Str(n) == IF n < 10 THEN <<DigitChar[n + 1]>>
          ELSE Str(n \div 10) \o <<DigitChar[(n % 10) + 1]>>

RECURSIVE padStart(_, _)
\* s.padStart(len, '0'): pads on the left, never truncates
padStart(s, len) == IF Len(s) >= len THEN s ELSE padStart(<<"0">> \o s, len)

\* String(n).slice(-len): what padding would be if it also truncated
padTruncate(s, len) ==
    LET p == padStart(s, len) IN SubSeq(p, Len(p) - len + 1, Len(p))

formatTileLabel_truncating(row, col, format, index, startAtOne) ==
    LET offset == IF startAtOne THEN 1 ELSE 0
        r == padTruncate(Str(row + offset), 2)
        c == padTruncate(Str(col + offset), 2)
        i == padTruncate(Str(index + offset), 3)
    IN  CASE format = "R01C01"   -> <<"R">> \o r \o <<"C">> \o c
          [] format = "01-01"    -> r \o <<"-">> \o c
          [] format = "Tile_001" -> <<"T", "i", "l", "e", "_">> \o i
          [] OTHER               -> <<"R">> \o r \o <<"C">> \o c

formatTileLabel_sequenceFromZero(row, col, format, index, startAtOne) ==
    LET offset == IF startAtOne THEN 1 ELSE 0
        r == padStart(Str(row + offset), 2)
        c == padStart(Str(col + offset), 2)
        i == padStart(Str(index), 3)
    IN  CASE format = "R01C01"   -> <<"R">> \o r \o <<"C">> \o c
          [] format = "01-01"    -> r \o <<"-">> \o c
          [] format = "Tile_001" -> <<"T", "i", "l", "e", "_">> \o i
          [] OTHER               -> <<"R">> \o r \o <<"C">> \o c

formatTileLabel(row, col, format, index, startAtOne) ==
    LET offset == IF startAtOne THEN 1 ELSE 0
        r == padStart(Str(row + offset), 2)
        c == padStart(Str(col + offset), 2)
        i == padStart(Str(index + offset), 3)
    IN  CASE format = "R01C01"   -> <<"R">> \o r \o <<"C">> \o c
          [] format = "01-01"    -> r \o <<"-">> \o c
          [] format = "Tile_001" -> <<"T", "i", "l", "e", "_">> \o i
          [] OTHER               -> <<"R">> \o r \o <<"C">> \o c

\* `tile-${row}-${col}`
tileId(row, col) ==
    <<"t", "i", "l", "e", "-">> \o Str(row) \o <<"-">> \o Str(col)

(***************************************************************************)
(* GridPlanner: computeGrid                                                *)
(***************************************************************************)
Threw(r) == "threw" \in DOMAIN r

\* the tile pushed for cell (row, col), index = row * cols + col
gridTile_unclipped(row, col, cols, stepX, stepY, ew, eh, dw, dh, s) ==
    [ row |-> row, col |-> col,
      id |-> tileId(row, col),
      label |-> formatTileLabel(row, col, s.numberingFormat,
                                row * cols + col, s.startIndexAtOne),
      x |-> col * stepX, y |-> row * stepY,
      width |-> ew,
      height |-> eh,
      isEmpty |-> FALSE, hasUnsafeFallback |-> FALSE, svgContent |-> None ]

gridTile(row, col, cols, stepX, stepY, ew, eh, dw, dh, s) ==
    [ row |-> row, col |-> col,
      id |-> tileId(row, col),
      label |-> formatTileLabel(row, col, s.numberingFormat,
                                row * cols + col, s.startIndexAtOne),
      x |-> col * stepX, y |-> row * stepY,
      width |-> Min(ew, dw - col * stepX),
      height |-> Min(eh, dh - row * stepY),
      isEmpty |-> FALSE, hasUnsafeFallback |-> FALSE, svgContent |-> None ]

\* the number of tiles along one axis
gridCount_noFloor(design, overlap, step) == Ceil(design - overlap, step)

gridCount_noOverlapTerm(design, overlap, step) == Max(1, Ceil(design, step))

gridCount_roundsDown(design, overlap, step) == Max(1, (design - overlap) \div step)

gridCount(design, overlap, step) == Max(1, Ceil(design - overlap, step))

computeGrid(designWidthMm, designHeightMm, s) ==
    LET effectiveTileWidth == s.bedWidth - 2 * s.margin
        effectiveTileHeight == s.bedHeight - 2 * s.margin
        stepX == effectiveTileWidth - s.overlap
        stepY == effectiveTileHeight - s.overlap
    IN  IF effectiveTileWidth <= 0 \/ effectiveTileHeight <= 0
        THEN [threw |-> "Effective tile size is zero or negative"]
        ELSE IF stepX <= 0 \/ stepY <= 0
        THEN [threw |-> "Overlap is too large for the effective tile size"]
        ELSE
          LET cols == gridCount(designWidthMm, s.overlap, stepX)
              rows == gridCount(designHeightMm, s.overlap, stepY)
          IN  [ rows |-> rows, cols |-> cols,
                tileWidth |-> s.bedWidth, tileHeight |-> s.bedHeight,
                effectiveTileWidth |-> effectiveTileWidth,
                effectiveTileHeight |-> effectiveTileHeight,
                tiles |-> [ k \in 1..(rows * cols) |->
                    gridTile((k - 1) \div cols, (k - 1) % cols, cols,
                             stepX, stepY,
                             effectiveTileWidth, effectiveTileHeight,
                             designWidthMm, designHeightMm, s) ] ]

(***************************************************************************)
(* Settings and their validation (App.tsx)                                 *)
(***************************************************************************)
MinBed == 10

DEFAULT_SETTINGS ==
    [ bedWidth |-> 300, bedHeight |-> 200, margin |-> 5, overlap |-> 0,
      exportMode |-> "laser-safe", numberingFormat |-> "R01C01",
      startIndexAtOne |-> TRUE, exportEmptyTiles |-> FALSE,
      registrationMarks |-> [ enabled |-> FALSE, type |-> "crosshair",
                              placement |-> "inside", size |-> 6 ],
      assemblyMap |-> [ enabled |-> TRUE, includeLabels |-> TRUE,
                        includeThumbnails |-> FALSE ] ]

Err(field, message) == [field |-> field, message |-> message]

If(c, e) == IF c THEN <<e>> ELSE <<>>

validateSettings_noSignCheck(s) ==
    LET effectiveWidth == s.bedWidth - 2 * s.margin
        effectiveHeight == s.bedHeight - 2 * s.margin
    IN  If(s.bedWidth < MinBed, Err("bedWidth", "Bed width must be at least 10mm"))
     \o If(s.bedHeight < MinBed, Err("bedHeight", "Bed height must be at least 10mm"))
     \o If(effectiveWidth <= 0, Err("margin", "Margin too large for bed width"))
     \o If(effectiveHeight <= 0, Err("margin", "Margin too large for bed height"))
     \o If(s.overlap >= effectiveWidth,
           Err("overlap", "Overlap must be less than effective tile width"))
     \o If(s.overlap >= effectiveHeight,
           Err("overlap", "Overlap must be less than effective tile height"))

validateSettings_noOverlapBound(s) ==
    LET effectiveWidth == s.bedWidth - 2 * s.margin
        effectiveHeight == s.bedHeight - 2 * s.margin
    IN  If(s.bedWidth < MinBed, Err("bedWidth", "Bed width must be at least 10mm"))
     \o If(s.bedHeight < MinBed, Err("bedHeight", "Bed height must be at least 10mm"))
     \o If(s.margin < 0, Err("margin", "Margin cannot be negative"))
     \o If(s.overlap < 0, Err("overlap", "Overlap cannot be negative"))
     \o If(effectiveWidth <= 0, Err("margin", "Margin too large for bed width"))
     \o If(effectiveHeight <= 0, Err("margin", "Margin too large for bed height"))

validateSettings_firstOnly(s) ==
    LET effectiveWidth == s.bedWidth - 2 * s.margin
        effectiveHeight == s.bedHeight - 2 * s.margin
        all == If(s.bedWidth < MinBed, Err("bedWidth", "Bed width must be at least 10mm"))
            \o If(s.bedHeight < MinBed, Err("bedHeight", "Bed height must be at least 10mm"))
            \o If(s.margin < 0, Err("margin", "Margin cannot be negative"))
            \o If(s.overlap < 0, Err("overlap", "Overlap cannot be negative"))
            \o If(effectiveWidth <= 0, Err("margin", "Margin too large for bed width"))
            \o If(effectiveHeight <= 0, Err("margin", "Margin too large for bed height"))
            \o If(s.overlap >= effectiveWidth,
                  Err("overlap", "Overlap must be less than effective tile width"))
            \o If(s.overlap >= effectiveHeight,
                  Err("overlap", "Overlap must be less than effective tile height"))
    IN  IF all = <<>> THEN <<>> ELSE <<all[1]>>

validateSettings(s) ==
    LET effectiveWidth == s.bedWidth - 2 * s.margin
        effectiveHeight == s.bedHeight - 2 * s.margin
    IN  If(s.bedWidth < MinBed, Err("bedWidth", "Bed width must be at least 10mm"))
     \o If(s.bedHeight < MinBed, Err("bedHeight", "Bed height must be at least 10mm"))
     \o If(s.margin < 0, Err("margin", "Margin cannot be negative"))
     \o If(s.overlap < 0, Err("overlap", "Overlap cannot be negative"))
     \o If(effectiveWidth <= 0, Err("margin", "Margin too large for bed width"))
     \o If(effectiveHeight <= 0, Err("margin", "Margin too large for bed height"))
     \o If(s.overlap >= effectiveWidth,
           Err("overlap", "Overlap must be less than effective tile width"))
     \o If(s.overlap >= effectiveHeight,
           Err("overlap", "Overlap must be less than effective tile height"))

(***************************************************************************)
(* MarkPlacer: generateMarkPositions (marks.ts)                            *)
(*                                                                         *)
(* markSize / 2 and overlap / 2 are halves of integers: a mark position is *)
(* kept in half millimetres (x2 = 2 * x, y2 = 2 * y), in the local frame   *)
(* of the tile document.                                                   *)
(***************************************************************************)
Mark(x2, y2) == [x2 |-> x2, y2 |-> y2]

generateMarkPositions_halfSize(grid, s) ==
    LET margin2 == 2 * s.margin
        ew2 == 2 * grid.effectiveTileWidth
        eh2 == 2 * grid.effectiveTileHeight
        offset2 == s.registrationMarks.size
    IN  IF ~s.registrationMarks.enabled THEN <<>>
        ELSE IF s.registrationMarks.placement = "inside"
        THEN << Mark(margin2 + offset2, margin2 + offset2),
                Mark(margin2 + ew2 - offset2, margin2 + offset2),
                Mark(margin2 + offset2, margin2 + eh2 - offset2),
                Mark(margin2 + ew2 - offset2, margin2 + eh2 - offset2) >>
        ELSE
          LET overlapOffset2 == IF s.overlap > 0 THEN s.overlap ELSE offset2
          IN  << Mark(margin2 - overlapOffset2, margin2 - overlapOffset2),
                 Mark(margin2 + ew2 + overlapOffset2, margin2 - overlapOffset2),
                 Mark(margin2 - overlapOffset2, margin2 + eh2 + overlapOffset2),
                 Mark(margin2 + ew2 + overlapOffset2, margin2 + eh2 + overlapOffset2) >>

\* top-left, top-right, bottom-left, bottom-right; the same for every tile
generateMarkPositions(grid, s) ==
    LET margin2 == 2 * s.margin
        ew2 == 2 * grid.effectiveTileWidth
        eh2 == 2 * grid.effectiveTileHeight
        offset2 == s.registrationMarks.size + 2
    IN  IF ~s.registrationMarks.enabled THEN <<>>
        ELSE IF s.registrationMarks.placement = "inside"
        THEN << Mark(margin2 + offset2, margin2 + offset2),
                Mark(margin2 + ew2 - offset2, margin2 + offset2),
                Mark(margin2 + offset2, margin2 + eh2 - offset2),
                Mark(margin2 + ew2 - offset2, margin2 + eh2 - offset2) >>
        ELSE
          LET overlapOffset2 == IF s.overlap > 0 THEN s.overlap ELSE offset2
          IN  << Mark(margin2 - overlapOffset2, margin2 - overlapOffset2),
                 Mark(margin2 + ew2 + overlapOffset2, margin2 - overlapOffset2),
                 Mark(margin2 - overlapOffset2, margin2 + eh2 + overlapOffset2),
                 Mark(margin2 + ew2 + overlapOffset2, margin2 + eh2 + overlapOffset2) >>

(***************************************************************************)
(* TileClipper: processSingleTile (tiler.ts)                               *)
(*                                                                         *)
(* A document carries its path primitives as bounding boxes in native      *)
(* coordinates with a kind that decides what the boolean intersection      *)
(* does with them:                                                         *)
(*   "rect"        a filled rectangle; intersecting yields the common box  *)
(*   "sparse"      a compound path of two unit squares in opposite corners *)
(*                 of its bounding box; the bounding box may meet a crop   *)
(*                 window that none of its geometry meets                  *)
(*   "degenerate"  a path on which the boolean operator throws             *)
(***************************************************************************)
Box(x0, y0, x1, y1) == [x0 |-> x0, y0 |-> y0, x1 |-> x1, y1 |-> y1]

\* Rectangle.intersects with epsilon 0: strict on all four sides
intersects(a, b) ==
    /\ b.x1 > a.x0 /\ b.y1 > a.y0 /\ b.x0 < a.x1 /\ b.y0 < a.y1

BoxMeet(a, b) == Box(Max(a.x0, b.x0), Max(a.y0, b.y0),
                     Min(a.x1, b.x1), Min(a.y1, b.y1))

translate(b, dx, dy) == Box(b.x0 + dx, b.y0 + dy, b.x1 + dx, b.y1 + dy)

\* viewBox?.width ?? width ?? detectedWidthMm  (and the same for height)
nativeWidth(svg) ==
    IF svg.viewBox # None THEN svg.viewBox[1].width
    ELSE IF svg.width # None THEN svg.width[1] ELSE svg.detectedWidthMm

nativeHeight(svg) ==
    IF svg.viewBox # None THEN svg.viewBox[1].height
    ELSE IF svg.height # None THEN svg.height[1] ELSE svg.detectedHeightMm

\* a native box as numerators over (detectedWidthMm, detectedHeightMm)
bounds(svg, path) ==
    Box(path.x * svg.detectedWidthMm, path.y * svg.detectedHeightMm,
        (path.x + path.width) * svg.detectedWidthMm,
        (path.y + path.height) * svg.detectedHeightMm)

\* the geometry of a path, as the boxes it fills
children(svg, path) ==
    IF path.kind = "sparse"
    THEN << bounds(svg, [path EXCEPT !.width = 1, !.height = 1]),
            bounds(svg, [x |-> path.x + path.width - 1,
                         y |-> path.y + path.height - 1,
                         width |-> 1, height |-> 1]) >>
    ELSE << bounds(svg, path) >>

\* the crop window: the tile origin and the effective tile size, in native units
tileRectInSvg(svg, tile, grid) ==
    LET x0 == tile.x * nativeWidth(svg)
              + (IF svg.viewBox # None THEN svg.viewBox[1].x ELSE 0)
                * svg.detectedWidthMm
        y0 == tile.y * nativeHeight(svg)
              + (IF svg.viewBox # None THEN svg.viewBox[1].y ELSE 0)
                * svg.detectedHeightMm
    IN  Box(x0, y0, x0 + grid.effectiveTileWidth * nativeWidth(svg),
                    y0 + grid.effectiveTileHeight * nativeHeight(svg))

\* intersectPath: the non-empty pieces of the path inside the crop window;
\* an empty sequence stands for a null or empty result
intersectPath(svg, path, clip) ==
    LET meets(b) == intersects(b, clip)
        hit == SelectSeq(children(svg, path), meets)
    IN  [k \in 1..Len(hit) |-> BoxMeet(hit[k], clip)]

Item(parts, fallback) == [parts |-> parts, fallback |-> fallback]

RECURSIVE trim(_, _, _, _)
\* the loop over allPaths: the items pushed to trimmedItems, in order
trim(svg, paths, clip, k) ==
    IF k > Len(paths) THEN <<>>
    ELSE LET path == paths[k]
             rest == trim(svg, paths, clip, k + 1)
         IN  IF ~intersects(bounds(svg, path), clip) THEN rest
             ELSE IF path.kind = "degenerate"
             THEN <<Item(<<bounds(svg, path)>>, TRUE)>> \o rest
             ELSE LET intersected == intersectPath(svg, path, clip)
                  IN  IF intersected # <<>>
                      THEN <<Item(intersected, FALSE)>> \o rest
                      ELSE rest

translateItem(it, dx, dy) ==
    [it EXCEPT !.parts = [k \in 1..Len(it.parts) |-> translate(it.parts[k], dx, dy)]]

\* exportTileSVG: the emitted document, sized to the bed
exportTileSVG(grid, items, clip) ==
    [ width |-> grid.tileWidth, height |-> grid.tileHeight,
      viewBox |-> [x |-> 0, y |-> 0, width |-> grid.tileWidth,
                   height |-> grid.tileHeight],
      items |-> items, clipMask |-> clip ]

Outcome(tile, result) == [tile |-> tile, result |-> result]

AnyFallback(items) == \E k \in 1..Len(items) : items[k].fallback

\* the catch block keeps the clone but does not raise the flag
processSingleTile_noFlag(svg, tile, grid, s) ==
    LET clip == tileRectInSvg(svg, tile, grid)
        dx == -clip.x0 + s.margin * nativeWidth(svg)
        dy == -clip.y0 + s.margin * nativeHeight(svg)
        moved(items) == [k \in 1..Len(items) |-> translateItem(items[k], dx, dy)]
    IN  IF ~svg.importable
        THEN Outcome([tile EXCEPT !.isEmpty = TRUE], None)
        ELSE IF s.exportMode = "laser-safe"
        THEN LET trimmedItems == trim(svg, svg.paths, clip, 1)
                 hasContent == trimmedItems # <<>>
                 hasUnsafeFallback == FALSE
             IN  IF ~hasContent /\ ~s.exportEmptyTiles
                 THEN Outcome([tile EXCEPT !.isEmpty = TRUE], None)
                 ELSE LET t == [tile EXCEPT !.isEmpty = ~hasContent,
                                            !.hasUnsafeFallback = hasUnsafeFallback]
                          svgContent == exportTileSVG(grid, moved(trimmedItems), None)
                      IN  Outcome(t, Some([tile |-> [t EXCEPT !.svgContent = Some(svgContent)],
                                           svgContent |-> svgContent]))
        ELSE LET whole == [k \in 1..Len(svg.paths) |->
                              Item(children(svg, svg.paths[k]), FALSE)]
                 t == [tile EXCEPT !.isEmpty = FALSE, !.hasUnsafeFallback = FALSE]
                 svgContent == exportTileSVG(grid, moved(whole),
                                             Some(translate(clip, dx, dy)))
             IN  Outcome(t, Some([tile |-> [t EXCEPT !.svgContent = Some(svgContent)],
                                  svgContent |-> svgContent]))

\* the mask branch leaves the flag of the tile as it finds it
processSingleTile_maskKeepsFlag(svg, tile, grid, s) ==
    LET clip == tileRectInSvg(svg, tile, grid)
        dx == -clip.x0 + s.margin * nativeWidth(svg)
        dy == -clip.y0 + s.margin * nativeHeight(svg)
        moved(items) == [k \in 1..Len(items) |-> translateItem(items[k], dx, dy)]
    IN  IF ~svg.importable
        THEN Outcome([tile EXCEPT !.isEmpty = TRUE], None)
        ELSE IF s.exportMode = "laser-safe"
        THEN LET trimmedItems == trim(svg, svg.paths, clip, 1)
                 hasContent == trimmedItems # <<>>
                 hasUnsafeFallback == AnyFallback(trimmedItems)
             IN  IF ~hasContent /\ ~s.exportEmptyTiles
                 THEN Outcome([tile EXCEPT !.isEmpty = TRUE], None)
                 ELSE LET t == [tile EXCEPT !.isEmpty = ~hasContent,
                                            !.hasUnsafeFallback = hasUnsafeFallback]
                          svgContent == exportTileSVG(grid, moved(trimmedItems), None)
                      IN  Outcome(t, Some([tile |-> [t EXCEPT !.svgContent = Some(svgContent)],
                                           svgContent |-> svgContent]))
        ELSE LET whole == [k \in 1..Len(svg.paths) |->
                              Item(children(svg, svg.paths[k]), FALSE)]
                 t == [tile EXCEPT !.isEmpty = FALSE]
                 svgContent == exportTileSVG(grid, moved(whole),
                                             Some(translate(clip, dx, dy)))
             IN  Outcome(t, Some([tile |-> [t EXCEPT !.svgContent = Some(svgContent)],
                                  svgContent |-> svgContent]))

\* an empty intersection raises the flag as a throw does
processSingleTile_emptyIsFailure(svg, tile, grid, s) ==
    LET clip == tileRectInSvg(svg, tile, grid)
        dx == -clip.x0 + s.margin * nativeWidth(svg)
        dy == -clip.y0 + s.margin * nativeHeight(svg)
        moved(items) == [k \in 1..Len(items) |-> translateItem(items[k], dx, dy)]
    IN  IF ~svg.importable
        THEN Outcome([tile EXCEPT !.isEmpty = TRUE], None)
        ELSE IF s.exportMode = "laser-safe"
        THEN LET trimmedItems == trim(svg, svg.paths, clip, 1)
                 hasContent == trimmedItems # <<>>
                 hasUnsafeFallback ==
                     \/ AnyFallback(trimmedItems)
                     \/ \E k \in 1..Len(svg.paths) :
                          /\ intersects(bounds(svg, svg.paths[k]), clip)
                          /\ svg.paths[k].kind # "degenerate"
                          /\ intersectPath(svg, svg.paths[k], clip) = <<>>
             IN  IF ~hasContent /\ ~s.exportEmptyTiles
                 THEN Outcome([tile EXCEPT !.isEmpty = TRUE], None)
                 ELSE LET t == [tile EXCEPT !.isEmpty = ~hasContent,
                                            !.hasUnsafeFallback = hasUnsafeFallback]
                          svgContent == exportTileSVG(grid, moved(trimmedItems), None)
                      IN  Outcome(t, Some([tile |-> [t EXCEPT !.svgContent = Some(svgContent)],
                                           svgContent |-> svgContent]))
        ELSE LET whole == [k \in 1..Len(svg.paths) |->
                              Item(children(svg, svg.paths[k]), FALSE)]
                 t == [tile EXCEPT !.isEmpty = FALSE, !.hasUnsafeFallback = FALSE]
                 svgContent == exportTileSVG(grid, moved(whole),
                                             Some(translate(clip, dx, dy)))
             IN  Outcome(t, Some([tile |-> [t EXCEPT !.svgContent = Some(svgContent)],
                                  svgContent |-> svgContent]))

\* an empty tile yields no result, whatever exportEmptyTiles says
processSingleTile_dropsEmpty(svg, tile, grid, s) ==
    LET clip == tileRectInSvg(svg, tile, grid)
        dx == -clip.x0 + s.margin * nativeWidth(svg)
        dy == -clip.y0 + s.margin * nativeHeight(svg)
        moved(items) == [k \in 1..Len(items) |-> translateItem(items[k], dx, dy)]
    IN  IF ~svg.importable
        THEN Outcome([tile EXCEPT !.isEmpty = TRUE], None)
        ELSE IF s.exportMode = "laser-safe"
        THEN LET trimmedItems == trim(svg, svg.paths, clip, 1)
                 hasContent == trimmedItems # <<>>
                 hasUnsafeFallback == AnyFallback(trimmedItems)
             IN  IF ~hasContent
                 THEN Outcome([tile EXCEPT !.isEmpty = TRUE], None)
                 ELSE LET t == [tile EXCEPT !.isEmpty = ~hasContent,
                                            !.hasUnsafeFallback = hasUnsafeFallback]
                          svgContent == exportTileSVG(grid, moved(trimmedItems), None)
                      IN  Outcome(t, Some([tile |-> [t EXCEPT !.svgContent = Some(svgContent)],
                                           svgContent |-> svgContent]))
        ELSE LET whole == [k \in 1..Len(svg.paths) |->
                              Item(children(svg, svg.paths[k]), FALSE)]
                 t == [tile EXCEPT !.isEmpty = FALSE, !.hasUnsafeFallback = FALSE]
                 svgContent == exportTileSVG(grid, moved(whole),
                                             Some(translate(clip, dx, dy)))
             IN  Outcome(t, Some([tile |-> [t EXCEPT !.svgContent = Some(svgContent)],
                                  svgContent |-> svgContent]))

processSingleTile(svg, tile, grid, s) ==
    LET clip == tileRectInSvg(svg, tile, grid)
        dx == -clip.x0 + s.margin * nativeWidth(svg)
        dy == -clip.y0 + s.margin * nativeHeight(svg)
        moved(items) == [k \in 1..Len(items) |-> translateItem(items[k], dx, dy)]
    IN  IF ~svg.importable
        THEN Outcome([tile EXCEPT !.isEmpty = TRUE], None)
        ELSE IF s.exportMode = "laser-safe"
        THEN LET trimmedItems == trim(svg, svg.paths, clip, 1)
                 hasContent == trimmedItems # <<>>
                 hasUnsafeFallback == AnyFallback(trimmedItems)
             IN  IF ~hasContent /\ ~s.exportEmptyTiles
                 THEN Outcome([tile EXCEPT !.isEmpty = TRUE], None)
                 ELSE LET t == [tile EXCEPT !.isEmpty = ~hasContent,
                                            !.hasUnsafeFallback = hasUnsafeFallback]
                          svgContent == exportTileSVG(grid, moved(trimmedItems), None)
                      IN  Outcome(t, Some([tile |-> [t EXCEPT !.svgContent = Some(svgContent)],
                                           svgContent |-> svgContent]))
        ELSE LET whole == [k \in 1..Len(svg.paths) |->
                              Item(children(svg, svg.paths[k]), FALSE)]
                 t == [tile EXCEPT !.isEmpty = FALSE, !.hasUnsafeFallback = FALSE]
                 svgContent == exportTileSVG(grid, moved(whole),
                                             Some(translate(clip, dx, dy)))
             IN  Outcome(t, Some([tile |-> [t EXCEPT !.svgContent = Some(svgContent)],
                                  svgContent |-> svgContent]))

(***************************************************************************)
(* Source documents the user can upload (the SVGInfo parseSVG returns)     *)
(***************************************************************************)
Path(x, y, w, h, kind) == [x |-> x, y |-> y, width |-> w, height |-> h, kind |-> kind]

ViewBox(x, y, w, h) == [x |-> x, y |-> y, width |-> w, height |-> h]

\* 400mm x 300mm drawn 1:1; a degenerate path and a sparse path among rectangles
DocA ==
    [ fileName |-> "a.svg", viewBox |-> Some(ViewBox(0, 0, 400, 300)),
      width |-> Some(400), height |-> Some(300),
      detectedWidthMm |-> 400, detectedHeightMm |-> 300, importable |-> TRUE,
      paths |-> << Path(10, 10, 100, 100, "rect"),
                   Path(300, 20, 50, 50, "degenerate"),
                   Path(350, 100, 40, 40, "rect"),
                   Path(200, 150, 150, 100, "sparse") >> ]

\* 600mm x 150mm drawn at two native units per millimetre
DocB ==
    [ fileName |-> "b.svg", viewBox |-> Some(ViewBox(0, 0, 1200, 300)),
      width |-> Some(600), height |-> Some(150),
      detectedWidthMm |-> 600, detectedHeightMm |-> 150, importable |-> TRUE,
      paths |-> << Path(0, 0, 1200, 300, "rect") >> ]

Docs == {DocA, DocB}

Overlaps == {-10, 0}
ExportModes == {"laser-safe", "fast-clip"}

(***************************************************************************)
(* App.tsx                                                                 *)
(***************************************************************************)
PState(isProcessing, currentTile, totalTiles, phase, error) ==
    [ isProcessing |-> isProcessing, currentTile |-> currentTile,
      totalTiles |-> totalTiles, phase |-> phase, error |-> error ]

Op(op, i, n) == [op |-> op, i |-> i, n |-> n]

NoRun == [active |-> FALSE]

\* the pending handleGenerate call: what its closure captured, the locals of
\* processTiles, whether the app still holds the captured grid object, and
\* the tiles of that grid as they were when the call started
Run(svg, grid, s, i, results, shared, tilesAtStart) ==
    [ active |-> TRUE, svgInfo |-> svg, gridInfo |-> grid, settings |-> s,
      i |-> i, results |-> results, shared |-> shared,
      tilesAtStart |-> tilesAtStart ]

AppInit ==
    /\ svgInfo = None
    /\ settings = DEFAULT_SETTINGS
    /\ gridInfo = None
    /\ processedTiles = <<>>
    /\ validationErrors = validateSettings(DEFAULT_SETTINGS)
    /\ processingState = PState(FALSE, 0, 0, "idle", None)
    /\ cancelRef = FALSE
    /\ pc = "idle"
    /\ run = NoRun
    /\ lastOp = Op("mount", 0, 0)

\* no handler runs between two awaits of the batch: a click or an input event
\* is served only while the batch waits for its animation frame
HostIdle == pc \in {"idle", "yield", "exporting"}

\* useEffect(..., [svgInfo, settings]): what it leaves in validationErrors,
\* gridInfo and processedTiles, and whether it stored a new gridInfo
SettingsEffect(svg, s, grid0, tiles0) ==
    LET errors == validateSettings(s)
        grid == computeGrid(svg[1].detectedWidthMm, svg[1].detectedHeightMm, s)
    IN  IF svg # None /\ errors = <<>>
        THEN IF ~Threw(grid)
             THEN [ validationErrors |-> errors, gridInfo |-> Some(grid),
                    processedTiles |-> <<>>, replaced |-> TRUE ]
             ELSE [ validationErrors |-> <<Err("general", grid.threw)>>,
                    gridInfo |-> None, processedTiles |-> tiles0,
                    replaced |-> TRUE ]
        ELSE IF svg = None
        THEN [ validationErrors |-> errors, gridInfo |-> None,
               processedTiles |-> tiles0, replaced |-> TRUE ]
        ELSE [ validationErrors |-> errors, gridInfo |-> grid0,
               processedTiles |-> tiles0, replaced |-> FALSE ]

ApplyEffect(e) ==
    /\ validationErrors' = e.validationErrors
    /\ gridInfo' = e.gridInfo
    /\ processedTiles' = e.processedTiles
    /\ run' = IF run.active /\ e.replaced THEN [run EXCEPT !.shared = FALSE] ELSE run

\* Settings.onChange: one field of the settings is replaced, the effect follows
ChangeSettings ==
    /\ HostIdle
    /\ \E s \in {[settings EXCEPT !.overlap = v] : v \in Overlaps}
            \cup {[settings EXCEPT !.exportMode = v] : v \in ExportModes}
            \cup {[settings EXCEPT !.exportEmptyTiles = v] : v \in BOOLEAN} :
         /\ settings' = s
         /\ ApplyEffect(SettingsEffect(svgInfo, s, gridInfo, processedTiles))
    /\ lastOp' = Op("settings", 0, 0)
    /\ UNCHANGED <<svgInfo, processingState, cancelRef, pc, arg, ret>>

\* handleSVGLoaded, the effect follows
HandleSVGLoaded ==
    /\ HostIdle
    /\ \E info \in Docs :
         /\ svgInfo' = Some(info)
         /\ ApplyEffect(SettingsEffect(Some(info), settings, gridInfo, <<>>))
    /\ processingState' = [processingState EXCEPT !.error = None, !.phase = "idle"]
    /\ lastOp' = Op("upload", 0, 0)
    /\ UNCHANGED <<settings, cancelRef, pc, arg, ret>>

\* handleGenerate up to the call of processTiles.  The handler is modelled
\* with its own guard; the button that calls it is rendered while
\* isProcessing is false.
HandleGenerate ==
    /\ HostIdle
    /\ ~processingState.isProcessing
    /\ IF svgInfo = None \/ gridInfo = None \/ validationErrors # <<>>
       THEN /\ lastOp' = Op("generate-blocked", 0, 0)
            /\ UNCHANGED <<processingState, cancelRef, pc, run>>
       ELSE /\ cancelRef' = FALSE
            /\ processingState' =
                 PState(TRUE, 0, Len(gridInfo[1].tiles), "tiling", None)
            /\ run' = Run(svgInfo[1], gridInfo[1], settings, 0, <<>>, TRUE,
                          gridInfo[1].tiles)
            /\ pc' = "loop"
            /\ lastOp' = Op("generate", 0, Len(gridInfo[1].tiles))
    /\ UNCHANGED <<svgInfo, settings, gridInfo, processedTiles,
                   validationErrors, arg, ret>>

\* the catch block of handleGenerate: the state it stores for a message
catchState_reportsCancel(message) ==
    PState(FALSE, 0, 0, "idle", Some(message))

catchState(message) ==
    PState(FALSE, 0, 0, "idle",
           IF message = "Processing cancelled" THEN None ELSE Some(message))

\* results.find(r => r.tile.id === tile.id)
find(results, id) ==
    LET hits == SelectSeq(results, LAMBDA r : r.tile.id = id)
    IN  IF hits = <<>> THEN None ELSE Some(hits[1])

\* the tiles handleGenerate stores once processTiles has returned
updatedTiles(tiles, results) ==
    [ k \in 1..Len(tiles) |->
        LET result == find(results, tiles[k].id)
        IN  IF result # None THEN result[1].tile
            ELSE [tiles[k] EXCEPT !.isEmpty = TRUE] ]

Completed_staysBusy(grid, results) ==
    LET tiles == updatedTiles(grid.tiles, results)
    IN  /\ processedTiles' = tiles
        /\ gridInfo' = IF gridInfo # None
                       THEN Some([gridInfo[1] EXCEPT !.tiles = tiles]) ELSE None
        /\ processingState' =
             PState(TRUE, Len(grid.tiles), Len(grid.tiles), "done", None)
        /\ run' = NoRun
        /\ pc' = "idle"
        /\ lastOp' = Op("done", Len(results), Len(grid.tiles))

\* processTiles has returned: the rest of the try block of handleGenerate
Completed(grid, results) ==
    LET tiles == updatedTiles(grid.tiles, results)
    IN  /\ processedTiles' = tiles
        /\ gridInfo' = IF gridInfo # None
                       THEN Some([gridInfo[1] EXCEPT !.tiles = tiles]) ELSE None
        /\ processingState' =
             PState(FALSE, Len(grid.tiles), Len(grid.tiles), "done", None)
        /\ run' = NoRun
        /\ pc' = "idle"
        /\ lastOp' = Op("done", Len(results), Len(grid.tiles))

\* the progress callback handleGenerate passes to processTiles
onProgress_completedCount(prev, current, total) ==
    [prev EXCEPT !.currentTile = current - 1, !.totalTiles = total]

onProgress(prev, current, total) ==
    [prev EXCEPT !.currentTile = current, !.totalTiles = total]

\* the head of one iteration of the loop of processTiles: shouldCancel() is
\* polled, then onProgress(i + 1, total) is called; a cancelled poll throws
\* into the catch block of handleGenerate
Poll ==
    /\ pc = "loop"
    /\ LET total == Len(run.gridInfo.tiles)
           i == run.i
       IN  IF cancelRef
           THEN /\ processingState' = catchState("Processing cancelled")
                /\ run' = NoRun
                /\ pc' = "idle"
                /\ lastOp' = Op("cancelled", i, total)
           ELSE /\ processingState' = onProgress(processingState, i + 1, total)
                /\ pc' = "tile"
                /\ lastOp' = Op("progress", i + 1, total)
                /\ UNCHANGED run
    /\ UNCHANGED <<svgInfo, settings, gridInfo, processedTiles,
                   validationErrors, cancelRef, arg, ret>>

\* the rest of the iteration: tiles[i] is processed, its result pushed, and
\* the loop yields after an even i, goes on, or returns
TileStep ==
    /\ pc = "tile"
    /\ LET total == Len(run.gridInfo.tiles)
           i == run.i
           out == processSingleTile(run.svgInfo, run.gridInfo.tiles[i + 1],
                                    run.gridInfo, run.settings)
           grid == [run.gridInfo EXCEPT !.tiles[i + 1] = out.tile]
           results == run.results \o out.result
       IN  IF i % 2 = 0 \/ i + 1 < total
           THEN /\ gridInfo' = IF run.shared
                               THEN Some([gridInfo[1] EXCEPT !.tiles[i + 1] = out.tile])
                               ELSE gridInfo
                /\ run' = [run EXCEPT !.gridInfo = grid,
                                      !.results = results, !.i = i + 1]
                /\ pc' = IF i % 2 = 0 THEN "yield" ELSE "loop"
                /\ lastOp' = Op("tile", i, total)
                /\ UNCHANGED <<processedTiles, processingState>>
           ELSE Completed(grid, results)
    /\ UNCHANGED <<svgInfo, settings, validationErrors, cancelRef, arg, ret>>

\* the animation frame of asyncYield arrives: the loop goes on or returns
Yielded_pollsOnReturn ==
    /\ pc = "yield"
    /\ IF run.i < Len(run.gridInfo.tiles)
       THEN /\ pc' = "loop"
            /\ lastOp' = Op("resume", run.i, Len(run.gridInfo.tiles))
            /\ UNCHANGED <<gridInfo, processedTiles, processingState, run>>
       ELSE IF cancelRef
       THEN /\ processingState' = catchState("Processing cancelled")
            /\ run' = NoRun
            /\ pc' = "idle"
            /\ lastOp' = Op("cancelled", run.i, Len(run.gridInfo.tiles))
            /\ UNCHANGED <<gridInfo, processedTiles>>
       ELSE Completed(run.gridInfo, run.results)
    /\ UNCHANGED <<svgInfo, settings, validationErrors, cancelRef, arg, ret>>

Yielded ==
    /\ pc = "yield"
    /\ IF run.i < Len(run.gridInfo.tiles)
       THEN /\ pc' = "loop"
            /\ lastOp' = Op("resume", run.i, Len(run.gridInfo.tiles))
            /\ UNCHANGED <<gridInfo, processedTiles, processingState, run>>
       ELSE Completed(run.gridInfo, run.results)
    /\ UNCHANGED <<svgInfo, settings, validationErrors, cancelRef, arg, ret>>

HandleCancel_stopsProcessing ==
    /\ HostIdle
    /\ processingState.isProcessing
    /\ cancelRef' = TRUE
    /\ processingState' = [processingState EXCEPT !.phase = "cancelled",
                                                   !.isProcessing = FALSE]
    /\ lastOp' = Op("cancel", 0, 0)
    /\ UNCHANGED <<svgInfo, settings, gridInfo, processedTiles,
                   validationErrors, pc, run, arg, ret>>

\* handleCancel; the Cancel button is rendered while isProcessing is true
HandleCancel ==
    /\ HostIdle
    /\ processingState.isProcessing
    /\ cancelRef' = TRUE
    /\ processingState' = [processingState EXCEPT !.phase = "cancelled"]
    /\ lastOp' = Op("cancel", 0, 0)
    /\ UNCHANGED <<svgInfo, settings, gridInfo, processedTiles,
                   validationErrors, pc, run, arg, ret>>

\* handleExport up to the call of exportToZip; the Download button is
\* rendered while isProcessing is false and enabled with a non-empty result
HandleExport ==
    /\ pc = "idle"
    /\ ~processingState.isProcessing
    /\ \E k \in 1..Len(processedTiles) : ~processedTiles[k].isEmpty
    /\ svgInfo # None /\ gridInfo # None /\ Len(processedTiles) # 0
    /\ processingState' = [processingState EXCEPT !.isProcessing = TRUE,
                                                   !.phase = "exporting"]
    /\ pc' = "exporting"
    /\ lastOp' = Op("export", 0, 0)
    /\ UNCHANGED <<svgInfo, settings, gridInfo, processedTiles,
                   validationErrors, cancelRef, run, arg, ret>>

\* exportToZip settles: resolved, or rejected with a message
ExportSettled ==
    /\ pc = "exporting"
    /\ \E ok \in BOOLEAN :
         processingState' =
           IF ok THEN [processingState EXCEPT !.isProcessing = FALSE, !.phase = "done"]
           ELSE [processingState EXCEPT !.isProcessing = FALSE, !.phase = "idle",
                                        !.error = Some("Export failed")]
    /\ pc' = "idle"
    /\ lastOp' = Op("exported", 0, 0)
    /\ UNCHANGED <<svgInfo, settings, gridInfo, processedTiles,
                   validationErrors, cancelRef, run, arg, ret>>

Init ==
    /\ AppInit
    /\ arg = None
    /\ ret = None

Next ==
    \/ ChangeSettings
    \/ HandleSVGLoaded
    \/ HandleGenerate
    \/ Poll
    \/ TileStep
    \/ Yielded
    \/ HandleCancel
    \/ HandleExport
    \/ ExportSettled

Spec == Init /\ [][Next]_vars

(***************************************************************************)
(* Direct calls of computeGrid, over a range of design sizes and settings  *)
(***************************************************************************)
MaxDesign == 12
MaxMargin == 3
MaxOverlap == 4
BedSizes == {6, 10}

GridCall(dw, dh, s) ==
    [fn |-> "computeGrid", designWidth |-> dw, designHeight |-> dh, settings |-> s]

GridInputs ==
    { GridCall(dw, dh, [DEFAULT_SETTINGS EXCEPT !.bedWidth = bw, !.bedHeight = bh,
                                                !.margin = m, !.overlap = o]) :
        dw \in 1..MaxDesign, dh \in 1..MaxDesign, bw \in BedSizes, bh \in BedSizes,
        m \in 0..MaxMargin, o \in 0..MaxOverlap }

InitGrid ==
    /\ AppInit
    /\ arg \in {Some(c) : c \in GridInputs}
    /\ ret = None

CallComputeGrid ==
    /\ arg # None /\ arg[1].fn = "computeGrid" /\ ret = None
    /\ ret' = Some(computeGrid(arg[1].designWidth, arg[1].designHeight, arg[1].settings))
    /\ UNCHANGED <<appVars, arg>>

SpecGrid == InitGrid /\ [][CallComputeGrid]_vars

\* grids with a hundred rows or columns and more than a thousand tiles, in
\* every numbering format
MidDesign == 11
BigDesign == 102
LabelFormats == {"R01C01", "01-01", "Tile_001"}

LabelInputs ==
    { GridCall(dw, dh, [DEFAULT_SETTINGS EXCEPT !.bedWidth = 10, !.bedHeight = 10,
                                                !.margin = 4, !.overlap = 1,
                                                !.numberingFormat = f,
                                                !.startIndexAtOne = one]) :
        dw \in {2, 3, MidDesign, BigDesign}, dh \in {2, 3, MidDesign, BigDesign},
        f \in LabelFormats, one \in BOOLEAN }

InitLabel ==
    /\ AppInit
    /\ arg \in {Some(c) : c \in LabelInputs}
    /\ ret = None

SpecLabel == InitLabel /\ [][CallComputeGrid]_vars

\* the settings a grid may be computed for: positive effective tile size and
\* 0 <= overlap < effective tile size, in both axes
LayoutValid(s) ==
    /\ s.bedWidth - 2 * s.margin > 0 /\ s.bedHeight - 2 * s.margin > 0
    /\ 0 <= s.overlap
    /\ s.overlap < s.bedWidth - 2 * s.margin
    /\ s.overlap < s.bedHeight - 2 * s.margin

\* a computeGrid call with valid settings has returned
Returned == /\ ret # None /\ arg # None /\ arg[1].fn = "computeGrid"
            /\ LayoutValid(arg[1].settings)

TileBox(t) == Box(t.x, t.y, t.x + t.width, t.y + t.height)

TileSet(g) == {g.tiles[k] : k \in 1..Len(g.tiles)}

\* C1: for valid settings and a positive design size the tile rectangles of
\* computeGrid cover [0,designWidth] x [0,designHeight] with no gap and nothing
\* outside, and with overlap > 0 two tiles adjacent in a row or a column
\* share a band exactly `overlap` wide along the whole common edge.
C1_CoverageAndOverlap ==
    Returned =>
      LET g == ret[1]
          dw == arg[1].designWidth
          dh == arg[1].designHeight
          o == arg[1].settings.overlap
          T == TileSet(g)
      IN  /\ ~Threw(g)
          /\ \A t \in T : /\ 0 <= t.x /\ 0 <= t.y
                          /\ t.x + t.width <= dw /\ t.y + t.height <= dh
          /\ \A px \in 0..(dw - 1), py \in 0..(dh - 1) :
               \E t \in T : /\ t.x <= px /\ px + 1 <= t.x + t.width
                            /\ t.y <= py /\ py + 1 <= t.y + t.height
          /\ o > 0 =>
               \A t \in T, u \in T :
                 /\ (u.row = t.row /\ u.col = t.col + 1) =>
                      LET m == BoxMeet(TileBox(t), TileBox(u))
                      IN  /\ m.x1 - m.x0 = o
                          /\ m.y0 = t.y /\ m.y1 = t.y + t.height
                          /\ u.y = t.y /\ u.height = t.height
                 /\ (u.col = t.col /\ u.row = t.row + 1) =>
                      LET m == BoxMeet(TileBox(t), TileBox(u))
                      IN  /\ m.y1 - m.y0 = o
                          /\ m.x0 = t.x /\ m.x1 = t.x + t.width
                          /\ u.x = t.x /\ u.width = t.width

C1_Witness ==
    /\ Returned /\ ~Threw(ret[1])
    /\ arg[1].settings.overlap > 0
    /\ ret[1].rows >= 2 /\ ret[1].cols >= 3
    /\ \E t \in TileSet(ret[1]) : t.width < ret[1].effectiveTileWidth

\* C8: for valid settings and every design size computeGrid yields
\* rows >= 1 and cols >= 1.
C8_AtLeastOneTile ==
    Returned => /\ ~Threw(ret[1])
                /\ ret[1].rows >= 1 /\ ret[1].cols >= 1
                /\ Len(ret[1].tiles) >= 1

\* a design not larger than the overlap, and smaller than one bed
C8_Witness ==
    /\ Returned /\ ~Threw(ret[1])
    /\ arg[1].designWidth <= arg[1].settings.overlap
    /\ arg[1].designHeight < arg[1].settings.overlap
    /\ ret[1].rows = 1 /\ ret[1].cols = 1

\* C9: every tile has 0 < width <= effectiveTileWidth and ends inside the
\* design (likewise for height); only a tile of the last column is narrower
\* than effectiveTileWidth, only a tile of the last row is shorter than
\* effectiveTileHeight.
C9_TrailingTilesClipped ==
    Returned =>
      LET g == ret[1] IN
      /\ ~Threw(g)
      /\ \A t \in TileSet(g) :
           /\ 0 < t.width /\ t.width <= g.effectiveTileWidth
           /\ t.x + t.width <= arg[1].designWidth
           /\ 0 < t.height /\ t.height <= g.effectiveTileHeight
           /\ t.y + t.height <= arg[1].designHeight
           /\ t.width < g.effectiveTileWidth => t.col = g.cols - 1
           /\ t.height < g.effectiveTileHeight => t.row = g.rows - 1

C9_Witness ==
    /\ Returned /\ ~Threw(ret[1])
    /\ ret[1].cols >= 2 /\ ret[1].rows >= 2
    /\ \E t \in TileSet(ret[1]) :
         /\ t.col = ret[1].cols - 1 /\ t.row = ret[1].rows - 1
         /\ t.width < ret[1].effectiveTileWidth
         /\ t.height < ret[1].effectiveTileHeight
         /\ t.x + t.width = arg[1].designWidth

\* C10: no two tiles of a GridSpec share a label, for every numbering format
\* and both start-index conventions, also where the zero padding is exceeded.
C10_LabelsUnique ==
    (ret # None /\ ~Threw(ret[1])) =>
      Cardinality({ret[1].tiles[k].label : k \in 1..Len(ret[1].tiles)})
        = Len(ret[1].tiles)

\* a hundred columns and more than a thousand tiles, sequential numbering
C10_Witness ==
    /\ ret # None /\ ~Threw(ret[1])
    /\ ret[1].cols >= 100 /\ Len(ret[1].tiles) >= 1000
    /\ arg[1].settings.numberingFormat = "Tile_001"
    /\ Len(ret[1].tiles[Len(ret[1].tiles)].label) > 8

(***************************************************************************)
(* Properties of the App and of the batch                                  *)
(***************************************************************************)
\* the poll of tile k >= 2 of a batch finds the cancel request
CancelledPoll == pc = "loop" /\ cancelRef /\ run.i >= 1

\* C2 (as claimed): a batch of more than two tiles cancelled after its first
\* tile surfaces no tile result and ends in the phase 'cancelled' with no
\* error message.
C2_EndsInCancelledPhase ==
    [][ (CancelledPoll /\ Len(run.gridInfo.tiles) > 2) =>
          /\ processedTiles' = processedTiles
          /\ run' = NoRun
          /\ processingState'.phase = "cancelled"
          /\ processingState'.error = None ]_vars

\* C2 (amended): a batch of more than two tiles cancelled after its first
\* tile surfaces no tile result (processTiles returns no list, processedTiles
\* is left as it was) and ends with isProcessing false, no error message and
\* the phase reset to 'idle'; the phase 'cancelled' set by handleCancel lasts
\* only until the batch observes the request.
C2_CancelResetsToIdle ==
    [][ (CancelledPoll /\ Len(run.gridInfo.tiles) > 2) =>
          /\ processedTiles' = processedTiles
          /\ run' = NoRun /\ pc' = "idle"
          /\ ~processingState'.isProcessing
          /\ processingState'.phase = "idle"
          /\ processingState'.error = None ]_vars

\* a batch of four tiles was cancelled at the poll of its second tile
C2_Witness ==
    /\ lastOp = Op("cancelled", 1, 4)
    /\ ~run.active /\ processedTiles = <<>>
    /\ processingState = PState(FALSE, 0, 0, "idle", None)

Content(tiles) ==
    [ k \in 1..Len(tiles) |->
        [ isEmpty |-> tiles[k].isEmpty,
          hasUnsafeFallback |-> tiles[k].hasUnsafeFallback,
          svgContent |-> tiles[k].svgContent ] ]

\* C3: when a batch is cancelled at the poll of tile k >= 2, the tile records
\* of the grid the caller holds have the isEmpty, hasUnsafeFallback and
\* geometry content they had when the batch started.
C3_CancelLeavesTilesUntouched ==
    [][ (CancelledPoll /\ run.shared) =>
          /\ gridInfo' # None
          /\ Content(gridInfo'[1].tiles) = Content(run.tilesAtStart) ]_vars

\* C4: every result of an exact-trim batch whose tile has no fallback keeps
\* its geometry, in the local frame of the tile, inside the viewport
\* (0, 0, bedWidth, bedHeight) of the emitted document.
C4_GeometryInsideViewport ==
    (run.active /\ run.settings.exportMode = "laser-safe") =>
      \A k \in 1..Len(run.results) :
        LET r == run.results[k]
            doc == r.svgContent
            maxX == doc.viewBox.width * run.svgInfo.detectedWidthMm
            maxY == doc.viewBox.height * run.svgInfo.detectedHeightMm
        IN  ~r.tile.hasUnsafeFallback =>
              \A n \in 1..Len(doc.items) : \A m \in 1..Len(doc.items[n].parts) :
                LET b == doc.items[n].parts[m]
                IN  /\ 0 <= b.x0 /\ b.x1 <= maxX
                    /\ 0 <= b.y0 /\ b.y1 <= maxY

\* the paths of the document on which the intersection with the crop window
\* of the tile throws
Throwing(svg, tile, grid) ==
    { n \in 1..Len(svg.paths) :
        /\ svg.paths[n].kind = "degenerate"
        /\ intersects(bounds(svg, svg.paths[n]), tileRectInSvg(svg, tile, grid)) }

\* the rectangles of the document that meet the crop window of the tile
Trimmed(svg, tile, grid) ==
    { n \in 1..Len(svg.paths) :
        /\ svg.paths[n].kind = "rect"
        /\ intersects(bounds(svg, svg.paths[n]), tileRectInSvg(svg, tile, grid)) }

ItemSet(doc) == {doc.items[n] : n \in 1..Len(doc.items)}

\* C5: under exact-trim a path whose bounding box meets the crop window and
\* whose intersection throws is included as an unmodified clone, the tile
\* gets hasUnsafeFallback = true and isEmpty = false, the other paths of the
\* tile are still trimmed, and the batch goes on to the next tile (or
\* completes) without an error.
C5_FallbackIsLocal ==
    [][ ( /\ pc = "tile"
          /\ run.settings.exportMode = "laser-safe"
          /\ Throwing(run.svgInfo, run.gridInfo.tiles[run.i + 1], run.gridInfo) # {} ) =>
        LET svg == run.svgInfo
            grid == run.gridInfo
            tile == grid.tiles[run.i + 1]
            clip == tileRectInSvg(svg, tile, grid)
            dx == -clip.x0 + run.settings.margin * nativeWidth(svg)
            dy == -clip.y0 + run.settings.margin * nativeHeight(svg)
            last == run.i + 1 = Len(grid.tiles)
            produced == IF run'.active THEN run'.results[Len(run'.results)].tile
                        ELSE processedTiles'[run.i + 1]
        IN  /\ produced.id = tile.id
            /\ produced.hasUnsafeFallback /\ ~produced.isEmpty
            /\ produced.svgContent # None
            /\ \A n \in Throwing(svg, tile, grid) :
                 Item(<<translate(bounds(svg, svg.paths[n]), dx, dy)>>, TRUE)
                   \in ItemSet(produced.svgContent[1])
            /\ \A n \in Trimmed(svg, tile, grid) :
                 Item(<<translate(BoxMeet(bounds(svg, svg.paths[n]), clip), dx, dy)>>, FALSE)
                   \in ItemSet(produced.svgContent[1])
            /\ processingState'.error = None
            /\ ~last => /\ run'.active /\ run'.i = run.i + 1
                        /\ Len(run'.results) = Len(run.results) + 1
                        /\ pc' \in {"loop", "yield"}
                        /\ processingState'.isProcessing
            /\ (last /\ ~run'.active) => processingState'.phase = "done" ]_vars

\* the tile after the one with the fallback has been processed as well, and
\* the tile with the fallback also holds a trimmed rectangle
C5_Witness ==
    /\ run.active /\ run.settings.exportMode = "laser-safe" /\ run.i >= 3
    /\ run.gridInfo.tiles[2].hasUnsafeFallback /\ ~run.gridInfo.tiles[2].isEmpty
    /\ \E k \in 1..Len(run.results) :
         /\ run.results[k].tile.id = run.gridInfo.tiles[2].id
         /\ \E it \in ItemSet(run.results[k].svgContent) : it.fallback
         /\ \E it \in ItemSet(run.results[k].svgContent) : ~it.fallback

\* some layout invariant is violated: a bed below the minimum, a negative
\* margin or overlap, no effective tile size left, or an overlap that is not
\* below the effective tile size
Violated(s) ==
    \/ s.bedWidth < MinBed \/ s.bedHeight < MinBed
    \/ s.margin < 0 \/ s.overlap < 0
    \/ s.bedWidth - 2 * s.margin <= 0 \/ s.bedHeight - 2 * s.margin <= 0
    \/ s.overlap >= s.bedWidth - 2 * s.margin
    \/ s.overlap >= s.bedHeight - 2 * s.margin

\* C6: a generate action taken while the current settings violate a layout
\* invariant starts no batch and leaves the processing state unchanged; no
\* batch is ever started from settings that violate one.
C6_ValidationBlocksGenerate ==
    [][ /\ (lastOp'.op \in {"generate", "generate-blocked"} /\ lastOp' # lastOp
              /\ Violated(settings)) =>
             /\ lastOp'.op = "generate-blocked"
             /\ UNCHANGED <<processingState, pc, run, cancelRef, gridInfo, processedTiles>>
        /\ (run'.active /\ ~run.active) => ~Violated(run'.settings) ]_vars

\* generate was refused although a document and a grid are present
C6_Witness ==
    /\ lastOp.op = "generate-blocked"
    /\ Violated(settings) /\ validationErrors # <<>>
    /\ svgInfo # None /\ gridInfo # None
    /\ ~run.active /\ ~processingState.isProcessing

\* what a list of tiles derives from the design size and the layout settings
Shape(tiles) ==
    [ k \in 1..Len(tiles) |->
        [ id |-> tiles[k].id, label |-> tiles[k].label,
          x |-> tiles[k].x, y |-> tiles[k].y,
          width |-> tiles[k].width, height |-> tiles[k].height ] ]

\* C7: the grid and the processed tiles the app holds are always the ones
\* derived from the current settings and the current document, also while
\* the current settings are invalid (then none is held).
C7_NoStaleDerivedState ==
    (gridInfo # None \/ processedTiles # <<>>) =>
      /\ svgInfo # None
      /\ ~Violated(settings)
      /\ LET g == computeGrid(svgInfo[1].detectedWidthMm,
                              svgInfo[1].detectedHeightMm, settings)
         IN  /\ ~Threw(g)
             /\ gridInfo # None =>
                  /\ Shape(gridInfo[1].tiles) = Shape(g.tiles)
                  /\ gridInfo[1].rows = g.rows /\ gridInfo[1].cols = g.cols
             /\ processedTiles # <<>> => Shape(processedTiles) = Shape(g.tiles)

(***************************************************************************)
(* Direct calls of generateMarkPositions, on the grid of a design that     *)
(* needs several tiles in both axes                                        *)
(***************************************************************************)
MarkBeds == {10, 12}
MarkSizes == {1, 2, 6}
MarkPlacements == {"inside", "overlap"}

MarkCall(grid, s) == [fn |-> "generateMarkPositions", gridInfo |-> grid, settings |-> s]

MarkSettings ==
    { [DEFAULT_SETTINGS EXCEPT !.bedWidth = bw, !.bedHeight = bh,
                               !.margin = m, !.overlap = o,
                               !.registrationMarks =
                                   [ enabled |-> en, type |-> "crosshair",
                                     placement |-> pl, size |-> sz ]] :
        bw \in MarkBeds, bh \in MarkBeds, m \in 0..MaxMargin, o \in 0..MaxOverlap,
        en \in BOOLEAN, pl \in MarkPlacements, sz \in MarkSizes }

MarkInputs ==
    { MarkCall(computeGrid(2 * MaxDesign, MaxDesign, s), s) :
        s \in {t \in MarkSettings : validateSettings(t) = <<>>} }

InitMarks ==
    /\ AppInit
    /\ arg \in {Some(c) : c \in MarkInputs}
    /\ ret = None

CallGenerateMarkPositions ==
    /\ arg # None /\ arg[1].fn = "generateMarkPositions" /\ ret = None
    /\ ret' = Some(generateMarkPositions(arg[1].gridInfo, arg[1].settings))
    /\ UNCHANGED <<appVars, arg>>

SpecMarks == InitMarks /\ [][CallGenerateMarkPositions]_vars

\* a mark of the tile document of `tile`, in half millimetres of the
\* assembled design: local (margin, margin) lies at (tile.x, tile.y)
Assembled(tile, mark, s) ==
    Mark(2 * tile.x + mark.x2 - 2 * s.margin, 2 * tile.y + mark.y2 - 2 * s.margin)

\* the band two adjacent tiles share, in half millimetres
BandX(left, right, grid) ==
    [lo |-> 2 * right.x, hi |-> 2 * (left.x + grid.effectiveTileWidth)]

BandY(upper, lower, grid) ==
    [lo |-> 2 * lower.y, hi |-> 2 * (upper.y + grid.effectiveTileHeight)]

\* generateMarkPositions returned the four marks of the overlap placement
\* for settings with a positive overlap
OverlapMarksReturned ==
    /\ ret # None /\ arg # None /\ arg[1].fn = "generateMarkPositions"
    /\ arg[1].settings.registrationMarks.enabled
    /\ arg[1].settings.registrationMarks.placement = "overlap"
    /\ arg[1].settings.overlap > 0

\* C11: with the overlap placement and overlap > 0, in the assembled design
\* the right-edge marks of tile (row, col) lie on the left-edge marks of tile
\* (row, col+1) and the bottom marks of tile (row, col) on the top marks of
\* tile (row+1, col), inside the band the two tiles share.
C11_OverlapMarksCoincide ==
    OverlapMarksReturned =>
      LET g == arg[1].gridInfo
          s == arg[1].settings
          m == ret[1]
      IN  \A a, b \in TileSet(g) :
            /\ (a.row = b.row /\ b.col = a.col + 1) =>
                  /\ Assembled(a, m[2], s) = Assembled(b, m[1], s)
                  /\ Assembled(a, m[4], s) = Assembled(b, m[3], s)
                  /\ \A k \in {2, 4} :
                       /\ BandX(a, b, g).lo <= Assembled(a, m[k], s).x2
                       /\ Assembled(a, m[k], s).x2 <= BandX(a, b, g).hi
            /\ (a.col = b.col /\ b.row = a.row + 1) =>
                  /\ Assembled(a, m[3], s) = Assembled(b, m[1], s)
                  /\ Assembled(a, m[4], s) = Assembled(b, m[2], s)
                  /\ \A k \in {3, 4} :
                       /\ BandY(a, b, g).lo <= Assembled(a, m[k], s).y2
                       /\ Assembled(a, m[k], s).y2 <= BandY(a, b, g).hi

(***************************************************************************)
(* Progress reports and cancellation polls of the batch                    *)
(***************************************************************************)
\* the head of an iteration whose poll finds no cancel request
ProgressCall == pc = "loop" /\ ~cancelRef

\* C12 (as claimed): onProgress is called once per processed tile with
\* totalCount = N and the first argument 1, 2, ..., N in order, and when
\* onProgress(k, N) is called exactly k tiles have completed processing.
C12_ProgressCountsCompleted ==
    [][ ProgressCall =>
          /\ processingState'.totalTiles = Len(run.gridInfo.tiles)
          /\ processingState'.currentTile = processingState.currentTile + 1
          /\ run'.i = processingState'.currentTile ]_vars

\* C12 (amended): onProgress is called once per processed tile, before the
\* tile is processed, with totalCount = N and the first argument 1, 2, ..., N
\* in order; when onProgress(k, N) is called exactly k - 1 tiles have
\* completed processing and tile k is the one about to be processed.
C12_ProgressNamesCurrentTile ==
    [][ /\ ProgressCall =>
            /\ processingState'.totalTiles = Len(run.gridInfo.tiles)
            /\ processingState'.currentTile = processingState.currentTile + 1
            /\ processingState'.currentTile <= Len(run.gridInfo.tiles)
            /\ run'.i = processingState'.currentTile - 1
            /\ pc' = "tile"
        /\ pc = "tile" =>
            /\ processingState.currentTile = run.i + 1
            /\ run'.active =>
                  /\ run'.i = run.i + 1
                  /\ processingState'.currentTile = processingState.currentTile
            /\ ~run'.active =>
                  /\ run.i + 1 = Len(run.gridInfo.tiles)
                  /\ processingState'.currentTile = Len(run.gridInfo.tiles)
        /\ (run.active /\ run'.active /\ pc # "loop") =>
            /\ processingState'.currentTile = processingState.currentTile
            /\ processingState'.totalTiles = processingState.totalTiles ]_vars

\* onProgress(4, 4) has been called while three tiles have completed
C12_Witness ==
    /\ lastOp = Op("progress", 4, 4) /\ pc = "tile"
    /\ run.i = 3
    /\ processingState.currentTile = 4 /\ processingState.totalTiles = 4

\* C13: shouldCancel is polled once per tile, before the tile is processed,
\* and the tiles are processed in row-major order (every tile processed
\* before lies in an earlier row, or in the same row and an earlier
\* column); a tile whose poll found
\* no request is processed to the end, a request takes effect only at the
\* next poll, and a request raised after the poll of the last tile has no
\* effect: the batch returns its results and they are stored.
C13_PollOncePerTileInOrder ==
    [][ /\ pc' = "tile" => (pc = "loop" /\ ~cancelRef /\ run' = run)
        /\ pc = "tile" =>
            LET grid == run.gridInfo
                tile == grid.tiles[run.i + 1]
                N == Len(grid.tiles)
            IN  /\ \A k \in 1..run.i :
                     \/ grid.tiles[k].row < tile.row
                     \/ grid.tiles[k].row = tile.row /\ grid.tiles[k].col < tile.col
                /\ pc' # "tile"
                /\ run'.active =>
                      /\ run'.i = run.i + 1
                      /\ \/ run'.results = run.results
                         \/ /\ Len(run'.results) = Len(run.results) + 1
                            /\ SubSeq(run'.results, 1, Len(run.results)) = run.results
                            /\ run'.results[Len(run'.results)].tile.id = tile.id
                      /\ run'.gridInfo.tiles[run.i + 1].id = tile.id
                /\ ~run'.active => (run.i + 1 = N /\ processingState'.phase = "done")
        /\ (pc = "yield" /\ cancelRef) =>
            LET N == Len(run.gridInfo.tiles)
            IN  /\ run.i < N =>
                      /\ run'.active /\ run'.i = run.i /\ run'.results = run.results
                      /\ pc' \in {"loop", "yield"}
                /\ run.i = N =>
                      \/ /\ ~run'.active
                         /\ processingState' = PState(FALSE, N, N, "done", None)
                         /\ processedTiles' = updatedTiles(run.gridInfo.tiles, run.results)
                      \/ /\ run'.active /\ run'.i = run.i /\ run'.results = run.results
                         /\ pc' = "yield"
        /\ (pc = "loop" /\ cancelRef) =>
            (~run'.active /\ processedTiles' = processedTiles /\ pc' = "idle") ]_vars

\* a batch of three tiles: Cancel was pressed during the wait after the
\* third tile, and the batch completed with its three tiles stored
C13_Witness ==
    /\ lastOp.op = "done" /\ lastOp.n = 3
    /\ cancelRef
    /\ Len(processedTiles) = 3
    /\ processingState = PState(FALSE, 3, 3, "done", None)

(***************************************************************************)
(* Direct calls of validateSettings and computeGrid on the same settings,  *)
(* valid and invalid ones, among them margin 150 on the default bed        *)
(***************************************************************************)
ValidateMargins == (-1..MaxMargin) \cup {150}
ValidateBedWidths == {6, 10, DEFAULT_SETTINGS.bedWidth}
ValidateBedHeights == {6, 10, DEFAULT_SETTINGS.bedHeight}

ValidateCall(dw, dh, s) ==
    [fn |-> "validateSettings", designWidth |-> dw, designHeight |-> dh, settings |-> s]

ValidateInputs ==
    { ValidateCall(d, d, [DEFAULT_SETTINGS EXCEPT !.bedWidth = bw, !.bedHeight = bh,
                                                  !.margin = m, !.overlap = o]) :
        d \in {1, MaxDesign}, bw \in ValidateBedWidths, bh \in ValidateBedHeights,
        m \in ValidateMargins, o \in -1..MaxOverlap }

InitValidate ==
    /\ AppInit
    /\ arg \in {Some(c) : c \in ValidateInputs}
    /\ ret = None

\* validateSettings(settings), and computeGrid called directly with the
\* same settings, whatever the list is
CallValidateSettings ==
    /\ arg # None /\ arg[1].fn = "validateSettings" /\ ret = None
    /\ ret' = Some([ errors |-> validateSettings(arg[1].settings),
                     grid |-> computeGrid(arg[1].designWidth, arg[1].designHeight,
                                          arg[1].settings) ])
    /\ UNCHANGED <<appVars, arg>>

SpecValidate == InitValidate /\ [][CallValidateSettings]_vars

Validated == ret # None /\ arg # None /\ arg[1].fn = "validateSettings"

\* the list holds an error on the field
HasError(errors, field) == \E k \in 1..Len(errors) : errors[k].field = field

\* C14: settings for which validateSettings returns the empty list never
\* make computeGrid throw, whatever the design size; and when overlap >=
\* effective tile size in either axis validateSettings reports an error on
\* the field 'overlap' and computeGrid, called directly, throws.
C14_LayoutErrorOnlyIfBypassed ==
    Validated =>
      LET s == arg[1].settings
      IN  /\ ret[1].errors = <<>> => ~Threw(ret[1].grid)
          /\ ( \/ s.overlap >= s.bedWidth - 2 * s.margin
               \/ s.overlap >= s.bedHeight - 2 * s.margin ) =>
                (HasError(ret[1].errors, "overlap") /\ Threw(ret[1].grid))

\* a bed that passes every other check with an overlap equal to the
\* effective tile size
C14_Witness ==
    /\ Validated
    /\ arg[1].settings.bedWidth >= MinBed /\ arg[1].settings.bedHeight >= MinBed
    /\ arg[1].settings.margin > 0
    /\ arg[1].settings.overlap = arg[1].settings.bedWidth - 2 * arg[1].settings.margin
    /\ Len(ret[1].errors) = 2 /\ HasError(ret[1].errors, "overlap")
    /\ Threw(ret[1].grid)

\* the checks of validateSettings that fail for the settings
FailedChecks(s) ==
    { c \in 1..8 :
        \/ c = 1 /\ s.bedWidth < MinBed
        \/ c = 2 /\ s.bedHeight < MinBed
        \/ c = 3 /\ s.margin < 0
        \/ c = 4 /\ s.overlap < 0
        \/ c = 5 /\ s.bedWidth - 2 * s.margin <= 0
        \/ c = 6 /\ s.bedHeight - 2 * s.margin <= 0
        \/ c = 7 /\ s.overlap >= s.bedWidth - 2 * s.margin
        \/ c = 8 /\ s.overlap >= s.bedHeight - 2 * s.margin }

\* C15: validateSettings returns one error for every violated invariant:
\* the list is empty iff none is violated, it names every field with a
\* violated invariant, and when bed size - 2 * margin is not positive in
\* both axes it holds an error on 'margin' for the width and another on
\* 'margin' for the height.
C15_AllViolationsCollected ==
    Validated =>
      LET s == arg[1].settings
          errors == ret[1].errors
          at(message) == {k \in 1..Len(errors) :
                            errors[k] = Err("margin", message)}
      IN  /\ errors = <<>> <=> ~Violated(s)
          /\ Len(errors) = Cardinality(FailedChecks(s))
          /\ HasError(errors, "bedWidth") <=> s.bedWidth < MinBed
          /\ HasError(errors, "bedHeight") <=> s.bedHeight < MinBed
          /\ HasError(errors, "margin") <=> FailedChecks(s) \cap {3, 5, 6} # {}
          /\ HasError(errors, "overlap") <=> FailedChecks(s) \cap {4, 7, 8} # {}
          /\ ( /\ s.bedWidth - 2 * s.margin <= 0
               /\ s.bedHeight - 2 * s.margin <= 0 ) =>
                /\ Cardinality(at("Margin too large for bed width")) = 1
                /\ Cardinality(at("Margin too large for bed height")) = 1

\* margin 150 on the bed of 300 x 200
C15_Witness ==
    /\ Validated
    /\ arg[1].settings.bedWidth = 300 /\ arg[1].settings.bedHeight = 200
    /\ arg[1].settings.margin = 150 /\ arg[1].settings.overlap = 0
    /\ Len(SelectSeq(ret[1].errors, LAMBDA e : e.field = "margin")) = 2
    /\ Len(ret[1].errors) = 4

(***************************************************************************)
(* Direct calls of processSingleTile: every tile of the grid of a          *)
(* document, with the flags a tile object may carry from earlier calls     *)
(***************************************************************************)
\* a document paper.js does not import: importSVG returns null
DocN == [DocA EXCEPT !.fileName = "n.svg", !.importable = FALSE]

TileDocs == {DocA, DocB, DocN}

TileCall(svg, tile, grid, s) ==
    [fn |-> "processSingleTile", svgInfo |-> svg, tile |-> tile,
     gridInfo |-> grid, settings |-> s]

TileInputs ==
    UNION { LET s == [DEFAULT_SETTINGS EXCEPT !.exportMode = mode,
                                              !.exportEmptyTiles = ee]
                grid == computeGrid(svg.detectedWidthMm, svg.detectedHeightMm, s)
            IN  { TileCall(svg, [grid.tiles[k] EXCEPT !.isEmpty = e,
                                                      !.hasUnsafeFallback = f],
                           grid, s) :
                    k \in 1..Len(grid.tiles), e \in BOOLEAN, f \in BOOLEAN } :
            svg \in TileDocs, mode \in ExportModes, ee \in BOOLEAN }

InitTile ==
    /\ AppInit
    /\ arg \in {Some(c) : c \in TileInputs}
    /\ ret = None

CallProcessSingleTile ==
    /\ arg # None /\ arg[1].fn = "processSingleTile" /\ ret = None
    /\ ret' = Some(processSingleTile(arg[1].svgInfo, arg[1].tile,
                                     arg[1].gridInfo, arg[1].settings))
    /\ UNCHANGED <<appVars, arg>>

SpecTile == InitTile /\ [][CallProcessSingleTile]_vars

\* processSingleTile has returned for a tile in the given export mode
Processed(mode) ==
    /\ ret # None /\ arg # None /\ arg[1].fn = "processSingleTile"
    /\ arg[1].settings.exportMode = mode

\* C16 (as claimed): under fast-mask every tile has hasUnsafeFallback =
\* false after it is processed, whatever its geometry and whatever the flag
\* was before, and is never marked empty.
C16_MaskNeverFlagsNorEmpties ==
    Processed("fast-clip") =>
      /\ ~ret[1].tile.hasUnsafeFallback
      /\ ~ret[1].tile.isEmpty

\* C16 (amended): under fast-mask every tile of a document that paper.js
\* imports has hasUnsafeFallback = false and isEmpty = false after it is
\* processed, whatever its geometry and whatever the flags were before, and
\* a result is returned for it; when the import yields nothing the tile is
\* marked empty, no result is returned and the flag is left as it was.
C16_MaskClearsFlagsOfImportedTile ==
    Processed("fast-clip") =>
      IF arg[1].svgInfo.importable
      THEN /\ ~ret[1].tile.hasUnsafeFallback /\ ~ret[1].tile.isEmpty
           /\ ret[1].result # None
           /\ ~ret[1].result[1].tile.hasUnsafeFallback
           /\ ~ret[1].result[1].tile.isEmpty
           /\ ret[1].result[1].svgContent.clipMask # None
      ELSE /\ ret[1].tile.isEmpty /\ ret[1].result = None
           /\ ret[1].tile.hasUnsafeFallback = arg[1].tile.hasUnsafeFallback

\* a tile that carried both flags and whose window holds a path on which
\* the intersection would throw, processed under fast-mask
C16_Witness ==
    /\ Processed("fast-clip") /\ arg[1].svgInfo.importable
    /\ arg[1].tile.hasUnsafeFallback /\ arg[1].tile.isEmpty
    /\ Throwing(arg[1].svgInfo, arg[1].tile, arg[1].gridInfo) # {}
    /\ ~ret[1].tile.hasUnsafeFallback /\ ~ret[1].tile.isEmpty

\* the paths whose bounding box meets the crop window of the tile and whose
\* intersection with it is empty
EmptyTrim(svg, tile, grid) ==
    { n \in 1..Len(svg.paths) :
        /\ svg.paths[n].kind # "degenerate"
        /\ intersects(bounds(svg, svg.paths[n]), tileRectInSvg(svg, tile, grid))
        /\ intersectPath(svg, svg.paths[n], tileRectInSvg(svg, tile, grid)) = <<>> }

\* the unmodified clone of path n, in the local frame of the tile
Clone(svg, tile, grid, s, n) ==
    LET clip == tileRectInSvg(svg, tile, grid)
    IN  Item(<<translate(bounds(svg, svg.paths[n]),
                         -clip.x0 + s.margin * nativeWidth(svg),
                         -clip.y0 + s.margin * nativeHeight(svg))>>, TRUE)

\* C19 (as claimed): under exact-trim a path whose bounding box meets the
\* crop window and whose intersection is empty is treated as a failure: its
\* unmodified clone is included and the tile gets hasUnsafeFallback = true.
C19_EmptyTrimIsFallback ==
    ( /\ Processed("laser-safe") /\ arg[1].svgInfo.importable
      /\ EmptyTrim(arg[1].svgInfo, arg[1].tile, arg[1].gridInfo) # {} ) =>
        /\ ret[1].tile.hasUnsafeFallback
        /\ ret[1].result # None
        /\ \A n \in EmptyTrim(arg[1].svgInfo, arg[1].tile, arg[1].gridInfo) :
             Clone(arg[1].svgInfo, arg[1].tile, arg[1].gridInfo, arg[1].settings, n)
               \in ItemSet(ret[1].result[1].svgContent)

\* C19 (amended): under exact-trim a path whose bounding box meets the crop
\* window and whose intersection is empty is dropped: nothing is included
\* for it and it does not raise hasUnsafeFallback, which in a returned
\* result is true exactly when the intersection of some path of the tile
\* threw; a tile with no other geometry is marked empty, and when no result
\* is returned for it the flag is left as it was.
C19_EmptyTrimIsDropped ==
    ( /\ Processed("laser-safe") /\ arg[1].svgInfo.importable
      /\ EmptyTrim(arg[1].svgInfo, arg[1].tile, arg[1].gridInfo) # {} ) =>
        LET svg == arg[1].svgInfo
            tile == arg[1].tile
            grid == arg[1].gridInfo
            kept == Throwing(svg, tile, grid) \cup
                    { n \in 1..Len(svg.paths) :
                        /\ intersects(bounds(svg, svg.paths[n]),
                                      tileRectInSvg(svg, tile, grid))
                        /\ n \notin EmptyTrim(svg, tile, grid) }
        IN  /\ ret[1].tile.isEmpty <=> kept = {}
            /\ ret[1].result = None =>
                  ret[1].tile.hasUnsafeFallback = tile.hasUnsafeFallback
            /\ ret[1].result # None =>
                  /\ ret[1].tile.hasUnsafeFallback <=> Throwing(svg, tile, grid) # {}
                  /\ Len(ret[1].result[1].svgContent.items) = Cardinality(kept)
                  /\ \A n \in EmptyTrim(svg, tile, grid) :
                       Clone(svg, tile, grid, arg[1].settings, n)
                         \notin ItemSet(ret[1].result[1].svgContent)
            /\ ret[1].result = None <=> (kept = {} /\ ~arg[1].settings.exportEmptyTiles)

\* the tile whose only geometry is the bounding box of the sparse path: it
\* is marked empty and no flag is raised
C19_Witness ==
    /\ Processed("laser-safe") /\ arg[1].svgInfo.importable
    /\ EmptyTrim(arg[1].svgInfo, arg[1].tile, arg[1].gridInfo) # {}
    /\ Throwing(arg[1].svgInfo, arg[1].tile, arg[1].gridInfo) = {}
    /\ ~arg[1].tile.hasUnsafeFallback /\ ~arg[1].tile.isEmpty
    /\ ret[1].tile.isEmpty /\ ~ret[1].tile.hasUnsafeFallback
    /\ ret[1].result = None

(***************************************************************************)
(* Parser: parseUnit, convertToMm, parseSVG (parser.ts)                    *)
(*                                                                         *)
(* The content of a document is kept as what the DOM gives parseSVG:       *)
(* whether an <svg> element and a <parsererror> element are found, and the *)
(* width, height and viewBox attributes of the <svg> element (null when    *)
(* the attribute is missing).  The text of a length attribute is the       *)
(* number parseFloat reads from it (none when it reads NaN) and the        *)
(* letters that follow; a viewBox token is the number Number() gives, none *)
(* for NaN.  25.4/96, 25.4/72 and 25.4/6 are not integers: a length in     *)
(* millimetres is kept as its multiple of 1/1440 mm.                       *)
(***************************************************************************)
UNIT_TO_MM ==
    [ mm |-> 1440, cm |-> 14400, in |-> 36576, pt |-> 508, pc |-> 6096, px |-> 381 ]

Text(num, suffix) == [num |-> num, suffix |-> suffix]

toLowerCase(u) == IF u = "MM" THEN "mm" ELSE u

\* /^([\d.]+)\s*(mm|cm|in|pt|pc|px)?$/i matches digits with no suffix or
\* with a unit; anything else is read by parseFloat and taken as px
parseUnit(value) ==
    LET num == IF value.num = None THEN 0 ELSE value.num[1]
        match == value.num # None /\ value.num[1] >= 0
                 /\ toLowerCase(value.suffix) \in DOMAIN UNIT_TO_MM \cup {""}
    IN  IF ~match THEN [num |-> num, unit |-> "px"]
        ELSE [ num |-> num,
               unit |-> IF value.suffix = "" THEN "px" ELSE toLowerCase(value.suffix) ]

convertToMm(value, unit, unitMode) ==
    IF unitMode = "px96" /\ unit = "px" THEN value * 381
    ELSE IF unitMode = "px72" /\ unit = "px" THEN value * 508
    ELSE value * (IF toLowerCase(unit) \in DOMAIN UNIT_TO_MM
                  THEN UNIT_TO_MM[toLowerCase(unit)] ELSE UNIT_TO_MM.px)

\* the viewBox of the document: four tokens, none of them NaN
parseViewBox(attr) ==
    IF attr # None /\ Len(attr[1]) = 4 /\ \A k \in 1..4 : attr[1][k] # None
    THEN Some(ViewBox(attr[1][1][1], attr[1][2][1], attr[1][3][1], attr[1][4][1]))
    ELSE None

parseSVG_eitherAttribute(content, fileName, unitMode) ==
    IF ~content.hasSvg THEN [threw |-> "Invalid SVG: No <svg> element found"]
    ELSE IF content.parserError THEN [threw |-> "SVG parsing error"]
    ELSE
      LET viewBox == parseViewBox(content.viewBox)
          w == IF content.width # None THEN Some(parseUnit(content.width[1])) ELSE None
          h == IF content.height # None THEN Some(parseUnit(content.height[1])) ELSE None
          width == IF w # None THEN Some(w[1].num) ELSE None
          height == IF h # None THEN Some(h[1].num) ELSE None
          widthUnit == IF w # None THEN w[1].unit ELSE "px"
          heightUnit == IF h # None THEN h[1].unit ELSE "px"
          info(dw, dh) ==
              [ fileName |-> fileName, originalContent |-> content,
                viewBox |-> viewBox, width |-> width, height |-> height,
                widthUnit |-> widthUnit, heightUnit |-> heightUnit,
                detectedWidthMm |-> dw, detectedHeightMm |-> dh ]
      IN  IF width # None \/ height # None
          THEN info(convertToMm(IF width # None THEN width[1] ELSE 0, widthUnit, unitMode),
                    convertToMm(IF height # None THEN height[1] ELSE 0, heightUnit, unitMode))
          ELSE IF viewBox # None
          THEN info(convertToMm(viewBox[1].width, "px", unitMode),
                    convertToMm(viewBox[1].height, "px", unitMode))
          ELSE [threw |-> "SVG has no width/height or viewBox. Cannot determine dimensions."]

parseSVG(content, fileName, unitMode) ==
    IF ~content.hasSvg THEN [threw |-> "Invalid SVG: No <svg> element found"]
    ELSE IF content.parserError THEN [threw |-> "SVG parsing error"]
    ELSE
      LET viewBox == parseViewBox(content.viewBox)
          w == IF content.width # None THEN Some(parseUnit(content.width[1])) ELSE None
          h == IF content.height # None THEN Some(parseUnit(content.height[1])) ELSE None
          width == IF w # None THEN Some(w[1].num) ELSE None
          height == IF h # None THEN Some(h[1].num) ELSE None
          widthUnit == IF w # None THEN w[1].unit ELSE "px"
          heightUnit == IF h # None THEN h[1].unit ELSE "px"
          info(dw, dh) ==
              [ fileName |-> fileName, originalContent |-> content,
                viewBox |-> viewBox, width |-> width, height |-> height,
                widthUnit |-> widthUnit, heightUnit |-> heightUnit,
                detectedWidthMm |-> dw, detectedHeightMm |-> dh ]
      IN  IF width # None /\ height # None
          THEN info(convertToMm(width[1], widthUnit, unitMode),
                    convertToMm(height[1], heightUnit, unitMode))
          ELSE IF viewBox # None
          THEN info(convertToMm(viewBox[1].width, "px", unitMode),
                    convertToMm(viewBox[1].height, "px", unitMode))
          ELSE [threw |-> "SVG has no width/height or viewBox. Cannot determine dimensions."]

(***************************************************************************)
(* Direct calls of parseSVG                                                *)
(***************************************************************************)
\* "96", "96px", "10mm", "10MM", "3cm", "1in", "72pt", "2pc", "0", "100%",
\* "-5mm", "abc"
AttrTexts ==
    { Text(Some(96), ""), Text(Some(96), "px"), Text(Some(10), "mm"),
      Text(Some(10), "MM"), Text(Some(3), "cm"), Text(Some(1), "in"),
      Text(Some(72), "pt"), Text(Some(2), "pc"), Text(Some(0), ""),
      Text(Some(100), "%"), Text(Some(-5), "mm"), Text(None, "abc") }

\* "0 0 200 100", "200 100", "0 0 x 100"
ViewBoxTexts ==
    { << Some(0), Some(0), Some(200), Some(100) >>,
      << Some(200), Some(100) >>,
      << Some(0), Some(0), None, Some(100) >> }

UnitModes == {"auto", "px96", "px72"}

Contents ==
    { [hasSvg |-> hs, parserError |-> pe, width |-> w, height |-> h, viewBox |-> vb] :
        hs \in BOOLEAN, pe \in BOOLEAN,
        w \in {None} \cup {Some(t) : t \in AttrTexts},
        h \in {None} \cup {Some(t) : t \in AttrTexts},
        vb \in {None} \cup {Some(t) : t \in ViewBoxTexts} }

ParseInputs ==
    { [fn |-> "parseSVG", content |-> c, fileName |-> "f.svg", unitMode |-> m] :
        c \in Contents, m \in UnitModes }

InitParse ==
    /\ AppInit
    /\ arg \in {Some(c) : c \in ParseInputs}
    /\ ret = None

CallParseSVG ==
    /\ arg # None /\ arg[1].fn = "parseSVG" /\ ret = None
    /\ ret' = Some(parseSVG(arg[1].content, arg[1].fileName, arg[1].unitMode))
    /\ UNCHANGED <<appVars, arg>>

SpecParse == InitParse /\ [][CallParseSVG]_vars

\* parseSVG has returned or thrown for a well-formed document
Parsed ==
    /\ ret # None /\ arg # None /\ arg[1].fn = "parseSVG"
    /\ arg[1].content.hasSvg /\ ~arg[1].content.parserError

\* millimetres (in 1/1440 mm) of a number of pixels under the unit mode
PxToMm(n, unitMode) == n * (IF unitMode = "px72" THEN 508 ELSE 381)

\* C17: with both a width and a height attribute the two attributes give the
\* physical size, each converted with its own unit; otherwise a viewBox of
\* four numbers gives it, its width and height taken as pixels; otherwise
\* parseSVG throws and yields no SVGInfo.  A document with only one of
\* width and height and a viewBox takes its size from the viewBox.
C17_SizeResolutionOrder ==
    Parsed =>
      LET c == arg[1].content
          m == arg[1].unitMode
          r == ret[1]
          validViewBox == /\ c.viewBox # None /\ Len(c.viewBox[1]) = 4
                          /\ \A k \in 1..4 : c.viewBox[1][k] # None
      IN  IF c.width # None /\ c.height # None
          THEN /\ ~Threw(r)
               /\ r.detectedWidthMm =
                    convertToMm(parseUnit(c.width[1]).num, parseUnit(c.width[1]).unit, m)
               /\ r.detectedHeightMm =
                    convertToMm(parseUnit(c.height[1]).num, parseUnit(c.height[1]).unit, m)
               /\ r.widthUnit = parseUnit(c.width[1]).unit
               /\ r.heightUnit = parseUnit(c.height[1]).unit
          ELSE IF validViewBox
          THEN /\ ~Threw(r)
               /\ r.detectedWidthMm = PxToMm(c.viewBox[1][3][1], m)
               /\ r.detectedHeightMm = PxToMm(c.viewBox[1][4][1], m)
          ELSE Threw(r)

\* width="10mm", no height, viewBox="0 0 200 100": the size is that of the
\* viewBox, 200 x 100 pixels at 96 per inch
C17_Witness ==
    /\ Parsed /\ arg[1].unitMode = "px96"
    /\ arg[1].content.width = Some(Text(Some(10), "mm"))
    /\ arg[1].content.height = None
    /\ arg[1].content.viewBox # None
    /\ ~Threw(ret[1])
    /\ ret[1].detectedWidthMm = 200 * 381 /\ ret[1].detectedHeightMm = 100 * 381
    /\ ret[1].width = Some(10) /\ ret[1].widthUnit = "mm"

\* C20: a batch that finishes after the settings or the document changed
\* does not commit its results: whenever a document is loaded and the
\* current settings are valid, the tiles in gridInfo and in processedTiles
\* have the rows x cols shape, the ids and the rectangles of the grid
\* computed from the current settings and the current document.
C20_StaleBatchNotCommitted ==
    (svgInfo # None /\ validateSettings(settings) = <<>>) =>
      LET g == computeGrid(svgInfo[1].detectedWidthMm,
                           svgInfo[1].detectedHeightMm, settings)
      IN  /\ gridInfo # None
          /\ Len(gridInfo[1].tiles) = gridInfo[1].rows * gridInfo[1].cols
          /\ gridInfo[1].rows = g.rows /\ gridInfo[1].cols = g.cols
          /\ Shape(gridInfo[1].tiles) = Shape(g.tiles)
          /\ processedTiles # <<>> => Shape(processedTiles) = Shape(g.tiles)

\* the rectangle (x, y, width, height) of the tile in native coordinates:
\* divided by the scale and moved by the origin of the viewBox
Projected(svg, tile) ==
    LET x0 == tile.x * nativeWidth(svg)
              + (IF svg.viewBox # None THEN svg.viewBox[1].x ELSE 0)
                * svg.detectedWidthMm
        y0 == tile.y * nativeHeight(svg)
              + (IF svg.viewBox # None THEN svg.viewBox[1].y ELSE 0)
                * svg.detectedHeightMm
    IN  Box(x0, y0, x0 + tile.width * nativeWidth(svg),
                    y0 + tile.height * nativeHeight(svg))

\* the native extent of the design, as numerators like a crop window
NativeExtent(svg) ==
    LET x0 == (IF svg.viewBox # None THEN svg.viewBox[1].x ELSE 0) * svg.detectedWidthMm
        y0 == (IF svg.viewBox # None THEN svg.viewBox[1].y ELSE 0) * svg.detectedHeightMm
    IN  Box(x0, y0, x0 + nativeWidth(svg) * svg.detectedWidthMm,
                    y0 + nativeHeight(svg) * svg.detectedHeightMm)

\* C21: the crop window of a tile is its rectangle (x, y, width, height)
\* projected into native coordinates; the window of a trailing tile has the
\* clipped size and does not extend past the native extent of the design.
\* The window is read from the clip mask the mask strategy emits, which is
\* the crop window moved into the local frame of the tile.
C21_CropWindowIsTileRectangle ==
    (Processed("fast-clip") /\ arg[1].svgInfo.importable) =>
      LET svg == arg[1].svgInfo
          tile == arg[1].tile
          window == Projected(svg, tile)
          dx == -window.x0 + arg[1].settings.margin * nativeWidth(svg)
          dy == -window.y0 + arg[1].settings.margin * nativeHeight(svg)
      IN  /\ ret[1].result # None
          /\ ret[1].result[1].svgContent.clipMask = Some(translate(window, dx, dy))
          /\ window.x1 <= NativeExtent(svg).x1
          /\ window.y1 <= NativeExtent(svg).y1

(***************************************************************************)
(* A batch left to itself: handleGenerate has called processTiles for a    *)
(* loaded document and nothing else happens until it returns               *)
(***************************************************************************)
BatchOverlaps == {0, 20}

BatchSettings ==
    { [DEFAULT_SETTINGS EXCEPT !.exportMode = mode, !.exportEmptyTiles = ee,
                               !.overlap = o] :
        mode \in ExportModes, ee \in BOOLEAN, o \in BatchOverlaps }

InitBatch ==
    /\ \E doc \in TileDocs, s \in BatchSettings :
         LET grid == computeGrid(doc.detectedWidthMm, doc.detectedHeightMm, s)
         IN  /\ svgInfo = Some(doc)
             /\ settings = s
             /\ gridInfo = Some(grid)
             /\ validationErrors = validateSettings(s)
             /\ processingState = PState(TRUE, 0, Len(grid.tiles), "tiling", None)
             /\ run = Run(doc, grid, s, 0, <<>>, TRUE, grid.tiles)
             /\ lastOp = Op("generate", 0, Len(grid.tiles))
    /\ processedTiles = <<>>
    /\ cancelRef = FALSE
    /\ pc = "loop"
    /\ arg = None
    /\ ret = None

NextBatch ==
    \/ Poll
    \/ TileStep
    \/ Yielded

SpecBatch == InitBatch /\ [][NextBatch]_vars

\* the paths retained for a tile under exact-trim: those whose intersection
\* throws and those whose intersection is not empty
Retained(svg, tile, grid) ==
    IF ~svg.importable THEN {}
    ELSE { n \in 1..Len(svg.paths) :
             /\ intersects(bounds(svg, svg.paths[n]), tileRectInSvg(svg, tile, grid))
             /\ \/ svg.paths[n].kind = "degenerate"
                \/ intersectPath(svg, svg.paths[n], tileRectInSvg(svg, tile, grid)) # <<>> }

\* the ids of the tiles of a list, in order
Ids(tiles) == [k \in 1..Len(tiles) |-> tiles[k].id]

\* the ids of the tiles of results, in order
ResultIds(results) == [k \in 1..Len(results) |-> results[k].tile.id]

\* what an exact-trim batch holds and stores, given whether empty tiles
\* yield a result: flags, the result list so far, and the stored records
TrimBatchYields(withEmpty) ==
    /\ (run.active /\ run.settings.exportMode = "laser-safe") =>
         LET done == SubSeq(run.gridInfo.tiles, 1, run.i)
         IN  /\ \A k \in 1..run.i :
                  done[k].isEmpty <=>
                    Retained(run.svgInfo, run.gridInfo.tiles[k], run.gridInfo) = {}
             /\ ResultIds(run.results) =
                  Ids(SelectSeq(done, LAMBDA t : withEmpty \/ ~t.isEmpty))
             /\ \A k \in 1..Len(run.results) :
                  /\ run.results[k].tile.isEmpty => run.settings.exportEmptyTiles
                  /\ run.results[k].tile.isEmpty <=>
                       \E j \in 1..run.i : /\ done[j].id = run.results[k].tile.id
                                             /\ done[j].isEmpty
    /\ (lastOp.op = "done" /\ settings.exportMode = "laser-safe") =>
         /\ Len(processedTiles) = lastOp.n
         /\ lastOp.i = Len(SelectSeq(processedTiles,
                                      LAMBDA t : withEmpty \/ ~t.isEmpty))
         /\ \A k \in 1..Len(processedTiles) :
              processedTiles[k].svgContent # None <=>
                (withEmpty \/ ~processedTiles[k].isEmpty)

\* C22 (as claimed): under exact-trim isEmpty is true after processing iff
\* no primitive was retained for the tile; an empty tile yields no result
\* when exportEmptyTiles is false and a result with isEmpty = true when it
\* is true, so processTiles returns, in scan order, the non-empty tiles
\* when the toggle is off and all N tiles when it is on.
C22_EmptyTilesFollowToggle ==
    TrimBatchYields(settings.exportEmptyTiles)

\* C22 (amended): as claimed for a document that paper.js imports; when the
\* import yields nothing every tile is marked empty and yields no result,
\* also with exportEmptyTiles on, so processTiles returns an empty list.
C22_EmptyTilesFollowToggleIfImported ==
    TrimBatchYields(settings.exportEmptyTiles /\ svgInfo[1].importable)

\* the batch of the 400 x 300 document with the toggle on has returned four
\* results; the third tile is empty and has a document
C22_Witness ==
    /\ lastOp = Op("done", 4, 4)
    /\ settings.exportMode = "laser-safe" /\ settings.exportEmptyTiles
    /\ settings.overlap = 0
    /\ processedTiles[3].isEmpty /\ processedTiles[3].svgContent # None
    /\ ~processedTiles[1].isEmpty

(***************************************************************************)
(* Direct calls of computeGrid with valid settings: small beds, and the    *)
(* design of 600 x 400 on the default bed                                  *)
(***************************************************************************)
CountInputs ==
    { c \in { GridCall(dw, dh, [DEFAULT_SETTINGS EXCEPT !.bedWidth = 10,
                                                        !.bedHeight = bh,
                                                        !.margin = m, !.overlap = o]) :
                dw \in 1..MaxDesign, dh \in {1, MaxDesign}, bh \in {10, 12},
                m \in 0..MaxMargin, o \in 0..MaxOverlap } :
        validateSettings(c.settings) = <<>> }
    \cup { GridCall(600, 400, DEFAULT_SETTINGS) }

InitCount ==
    /\ AppInit
    /\ arg \in {Some(c) : c \in CountInputs}
    /\ ret = None

SpecCount == InitCount /\ [][CallComputeGrid]_vars

\* n = max(1, ceil(a / b)) for b > 0: n is the least integer >= 1 with
\* n * b >= a
IsCeilAtLeastOne(n, a, b) ==
    /\ n >= 1 /\ n * b >= a
    /\ n > 1 => (n - 1) * b < a

\* C23: per axis count = max(1, ceil((designSize - overlap) /
\* (effectiveTileSize - overlap))); computeGrid emits rows x cols tiles in
\* row-major order, the tile at list index row * cols + col having that row
\* and col and the origin (col * stepX, row * stepY).  Design 600 x 400 on
\* bed 300 x 200 with margin 5 and overlap 0 gives effective tile 290 x 190,
\* 3 columns, 3 rows, 9 tiles and a last-column tile width of 20.
C23_CountsAndRowMajorOrder ==
    Returned =>
      LET g == ret[1]
          s == arg[1].settings
          stepX == s.bedWidth - 2 * s.margin - s.overlap
          stepY == s.bedHeight - 2 * s.margin - s.overlap
      IN  /\ ~Threw(g)
          /\ IsCeilAtLeastOne(g.cols, arg[1].designWidth - s.overlap, stepX)
          /\ IsCeilAtLeastOne(g.rows, arg[1].designHeight - s.overlap, stepY)
          /\ Len(g.tiles) = g.rows * g.cols
          /\ \A row \in 0..(g.rows - 1), col \in 0..(g.cols - 1) :
               LET t == g.tiles[row * g.cols + col + 1]
               IN  /\ t.row = row /\ t.col = col
                   /\ t.x = col * stepX /\ t.y = row * stepY
          /\ ( /\ arg[1].designWidth = 600 /\ arg[1].designHeight = 400
               /\ s.bedWidth = 300 /\ s.bedHeight = 200
               /\ s.margin = 5 /\ s.overlap = 0 ) =>
                /\ g.effectiveTileWidth = 290 /\ g.effectiveTileHeight = 190
                /\ g.cols = 3 /\ g.rows = 3 /\ Len(g.tiles) = 9
                /\ \A k \in {3, 6, 9} : g.tiles[k].width = 20

\* the grid of the design of 600 x 400 on the default bed
C23_Witness ==
    /\ Returned /\ ~Threw(ret[1])
    /\ arg[1].designWidth = 600 /\ arg[1].designHeight = 400
    /\ arg[1].settings = DEFAULT_SETTINGS
    /\ ret[1].cols = 3 /\ ret[1].rows = 3
    /\ ret[1].tiles[9].x = 580 /\ ret[1].tiles[9].y = 380
    /\ ret[1].tiles[9].width = 20 /\ ret[1].tiles[9].height = 20

(***************************************************************************)
(* Reading a label back                                                    *)
(***************************************************************************)
IsDigits(ds) == \A k \in 1..Len(ds) : \E d \in 1..10 : DigitChar[d] = ds[k]

RECURSIVE Val(_)
\* the number a sequence of decimal digits writes
Val(ds) ==
    IF ds = <<>> THEN 0
    ELSE 10 * Val(SubSeq(ds, 1, Len(ds) - 1))
         + (CHOOSE d \in 0..9 : DigitChar[d + 1] = ds[Len(ds)])

RECURSIVE NumDigits(_)
NumDigits(n) == IF n < 10 THEN 1 ELSE 1 + NumDigits(n \div 10)

\* ds writes n, zero-padded to at least len digits and never cut
Writes(ds, n, len) ==
    /\ IsDigits(ds) /\ Val(ds) = n
    /\ Len(ds) = Max(len, NumDigits(n))

\* label = head, the digits of a, sep, the digits of b
TwoNumbers(label, head, sep, a, b) ==
    \E p \in 1..Len(label) :
      /\ label[p] = sep
      /\ SubSeq(label, 1, Len(head)) = head
      /\ Writes(SubSeq(label, Len(head) + 1, p - 1), a, 2)
      /\ Writes(SubSeq(label, p + 1, Len(label)), b, 2)

\* C24: with o = 1 when startIndexAtOne and 0 otherwise, tile (row, col) of
\* a grid of C columns is labelled R{row+o}C{col+o}, {row+o}-{col+o} or
\* Tile_{row*C+col+o} according to the format, row and column zero-padded
\* to at least 2 digits and the sequence number to at least 3.
C24_LabelsApplyStartOffset ==
    (ret # None /\ arg # None /\ arg[1].fn = "computeGrid" /\ ~Threw(ret[1])) =>
      LET g == ret[1]
          f == arg[1].settings.numberingFormat
          o == IF arg[1].settings.startIndexAtOne THEN 1 ELSE 0
      IN  \A k \in 1..Len(g.tiles) :
            LET t == g.tiles[k]
            IN  CASE f = "R01C01" ->
                       TwoNumbers(t.label, <<"R">>, "C", t.row + o, t.col + o)
                  [] f = "01-01" ->
                       TwoNumbers(t.label, <<>>, "-", t.row + o, t.col + o)
                  [] f = "Tile_001" ->
                       /\ SubSeq(t.label, 1, 5) = <<"T", "i", "l", "e", "_">>
                       /\ Writes(SubSeq(t.label, 6, Len(t.label)),
                                 t.row * g.cols + t.col + o, 3)

\* sequence numbers from 1 on a grid of two columns: the first tile of the
\* second row is Tile_003
C24_Witness ==
    /\ ret # None /\ arg # None /\ ~Threw(ret[1])
    /\ arg[1].settings.numberingFormat = "Tile_001"
    /\ arg[1].settings.startIndexAtOne
    /\ ret[1].cols = 2 /\ ret[1].rows >= 2
    /\ ret[1].tiles[3].row = 1 /\ ret[1].tiles[3].col = 0
    /\ ret[1].tiles[3].label = <<"T", "i", "l", "e", "_", "0", "0", "3">>

(***************************************************************************)
(* Marks of the inside placement                                           *)
(***************************************************************************)
\* corner k of the effective area, in half millimetres: 1 top-left,
\* 2 top-right, 3 bottom-left, 4 bottom-right
Corner(k, grid, s) ==
    Mark(2 * (s.margin + (IF k \in {2, 4} THEN grid.effectiveTileWidth ELSE 0)),
         2 * (s.margin + (IF k \in {3, 4} THEN grid.effectiveTileHeight ELSE 0)))

\* the mark lies `inset2` half millimetres inward of corner k on both axes
Inward(mark, k, inset2, grid, s) ==
    /\ mark.x2 - Corner(k, grid, s).x2 = (IF k \in {2, 4} THEN -inset2 ELSE inset2)
    /\ mark.y2 - Corner(k, grid, s).y2 = (IF k \in {3, 4} THEN -inset2 ELSE inset2)

MarksReturned ==
    ret # None /\ arg # None /\ arg[1].fn = "generateMarkPositions"

\* C25: with marks enabled and the inside placement generateMarkPositions
\* returns exactly 4 positions, top-left, top-right, bottom-left,
\* bottom-right, each size/2 + 1 inward on both axes of the corresponding
\* corner of the effective area (4 mm for size 6); with marks disabled it
\* returns none.
C25_InsideMarksInsetFromCorners ==
    MarksReturned =>
      LET g == arg[1].gridInfo
          s == arg[1].settings
          rm == s.registrationMarks
          m == ret[1]
      IN  /\ ~rm.enabled => m = <<>>
          /\ (rm.enabled /\ rm.placement = "inside") =>
                /\ Len(m) = 4
                /\ \A k \in 1..4 : Inward(m[k], k, rm.size + 2, g, s)
                /\ rm.size = 6 => \A k \in 1..4 : Inward(m[k], k, 2 * 4, g, s)

\* size 6 on a bed of 10 with margin 3: the top-left mark is at (7, 7) mm
C25_Witness ==
    /\ MarksReturned
    /\ arg[1].settings.registrationMarks.enabled
    /\ arg[1].settings.registrationMarks.placement = "inside"
    /\ arg[1].settings.registrationMarks.size = 6
    /\ arg[1].settings.margin = 3
    /\ Len(ret[1]) = 4 /\ ret[1][1] = Mark(14, 14)

(***************************************************************************)
(* AssemblyMapGenerator: generateAssemblyMapSVG                            *)
(*                                                                         *)
(* The scale is a quotient of lengths; it is kept as a fraction n/d and    *)
(* every drawn length as a numerator over the scale's denominator.  The    *)
(* result is the part of the document that depends on the arguments: the   *)
(* design border, one rectangle per tile, the labels and the legend.       *)
(***************************************************************************)
Frac(n, d) == [n |-> n, d |-> d]

FracLeq(a, b) == a.n * b.d <= b.n * a.d

FracEq(a, b) == a.n * b.d = b.n * a.d

\* Math.min of a non-empty list of positive fractions
FracMin(fs) ==
    fs[CHOOSE k \in 1..Len(fs) :
         /\ \A j \in 1..Len(fs) : FracLeq(fs[k], fs[j])
         /\ \A j \in 1..(k - 1) : ~FracLeq(fs[j], fs[k])]

MapRect(x, y, w, h, class) == [x |-> x, y |-> y, width |-> w, height |-> h, class |-> class]

RECURSIVE CountWithContent(_)
CountWithContent(tiles) ==
    IF tiles = <<>> THEN 0
    ELSE (IF tiles[1].isEmpty THEN 0 ELSE 1) + CountWithContent(Tail(tiles))

generateAssemblyMapSVG_upscales(svg, s, grid, tiles) ==
    LET totalDesignWidth == svg.detectedWidthMm
        totalDesignHeight == svg.detectedHeightMm
        scale == FracMin(<< Frac(400, totalDesignWidth), Frac(300, totalDesignHeight) >>)
        stepX == grid.effectiveTileWidth - s.overlap
        stepY == grid.effectiveTileHeight - s.overlap
        rect(tile) ==
            MapRect(tile.col * stepX * scale.n, tile.row * stepY * scale.n,
                    Min(grid.effectiveTileWidth, totalDesignWidth - tile.col * stepX) * scale.n,
                    Min(grid.effectiveTileHeight, totalDesignHeight - tile.row * stepY) * scale.n,
                    IF tile.isEmpty THEN "tile-rect-empty" ELSE "tile-rect")
    IN  [ scale |-> scale,
          border |-> MapRect(0, 0, totalDesignWidth * scale.n,
                             totalDesignHeight * scale.n, "design-border"),
          rects |-> [k \in 1..Len(tiles) |-> rect(tiles[k])],
          labels |-> IF s.assemblyMap.includeLabels
                     THEN [k \in 1..Len(tiles) |-> tiles[k].label] ELSE <<>>,
          legend |-> [ cols |-> grid.cols, rows |-> grid.rows, total |-> Len(tiles),
                       withContent |-> CountWithContent(tiles),
                       start |-> IF tiles # <<>> THEN tiles[1].label
                                 ELSE <<"R", "0", "1", "C", "0", "1">> ] ]

generateAssemblyMapSVG(svg, s, grid, tiles) ==
    LET totalDesignWidth == svg.detectedWidthMm
        totalDesignHeight == svg.detectedHeightMm
        scale == FracMin(<< Frac(400, totalDesignWidth), Frac(300, totalDesignHeight),
                            Frac(1, 1) >>)
        stepX == grid.effectiveTileWidth - s.overlap
        stepY == grid.effectiveTileHeight - s.overlap
        rect(tile) ==
            MapRect(tile.col * stepX * scale.n, tile.row * stepY * scale.n,
                    Min(grid.effectiveTileWidth, totalDesignWidth - tile.col * stepX) * scale.n,
                    Min(grid.effectiveTileHeight, totalDesignHeight - tile.row * stepY) * scale.n,
                    IF tile.isEmpty THEN "tile-rect-empty" ELSE "tile-rect")
    IN  [ scale |-> scale,
          border |-> MapRect(0, 0, totalDesignWidth * scale.n,
                             totalDesignHeight * scale.n, "design-border"),
          rects |-> [k \in 1..Len(tiles) |-> rect(tiles[k])],
          labels |-> IF s.assemblyMap.includeLabels
                     THEN [k \in 1..Len(tiles) |-> tiles[k].label] ELSE <<>>,
          legend |-> [ cols |-> grid.cols, rows |-> grid.rows, total |-> Len(tiles),
                       withContent |-> CountWithContent(tiles),
                       start |-> IF tiles # <<>> THEN tiles[1].label
                                 ELSE <<"R", "0", "1", "C", "0", "1">> ] ]

(***************************************************************************)
(* Direct calls of generateAssemblyMapSVG with the grid of the document    *)
(* and the tiles of that grid after a batch marked some of them empty      *)
(***************************************************************************)
MapWidths == {200, 400, 600, 800}
MapHeights == {150, 300, 400, 600}
MapEmpties == {{}, {1}, {2, 3}, 1..16}

MapDoc(w, h) ==
    [ fileName |-> "m.svg", viewBox |-> Some(ViewBox(0, 0, w, h)),
      width |-> Some(w), height |-> Some(h),
      detectedWidthMm |-> w, detectedHeightMm |-> h, importable |-> TRUE,
      paths |-> <<>> ]

MapCall(svg, s, grid, tiles) ==
    [ fn |-> "generateAssemblyMapSVG", svgInfo |-> svg, settings |-> s,
      gridInfo |-> grid, tiles |-> tiles ]

MapInputs ==
    { LET s == [DEFAULT_SETTINGS EXCEPT !.overlap = o]
          g == computeGrid(w, h, s)
      IN  MapCall(MapDoc(w, h), s, g,
                  [k \in 1..Len(g.tiles) |-> [g.tiles[k] EXCEPT !.isEmpty = k \in e]]) :
        w \in MapWidths, h \in MapHeights, o \in BatchOverlaps, e \in MapEmpties }

InitMap ==
    /\ AppInit
    /\ arg \in {Some(c) : c \in MapInputs}
    /\ ret = None

CallGenerateAssemblyMapSVG ==
    /\ arg # None /\ arg[1].fn = "generateAssemblyMapSVG" /\ ret = None
    /\ ret' = Some(generateAssemblyMapSVG(arg[1].svgInfo, arg[1].settings,
                                          arg[1].gridInfo, arg[1].tiles))
    /\ UNCHANGED <<appVars, arg>>

SpecMap == InitMap /\ [][CallGenerateAssemblyMapSVG]_vars

MapReturned ==
    ret # None /\ arg # None /\ arg[1].fn = "generateAssemblyMapSVG"

\* f is the least of 400 / designWidth, 300 / designHeight and 1
IsFitScale(f, svg) ==
    LET fits == { Frac(400, svg.detectedWidthMm), Frac(300, svg.detectedHeightMm),
                  Frac(1, 1) }
    IN  /\ \E g \in fits : FracEq(f, g)
        /\ \A g \in fits : FracLeq(f, g)

\* C26: the assembly map draws exactly one rectangle per tile, whose
\* position and size are the tile's x, y, width and height from the grid
\* multiplied by one scale = min(400/designWidth, 300/designHeight, 1),
\* never greater than 1, styled as empty iff the tile's isEmpty is true.
C26_MapRectanglesAreScaledTiles ==
    MapReturned =>
      LET tiles == arg[1].tiles
          map == ret[1]
          f == map.scale
      IN  /\ IsFitScale(f, arg[1].svgInfo)
          /\ f.n <= f.d
          /\ Len(map.rects) = Len(tiles)
          /\ \A k \in 1..Len(tiles) :
                /\ map.rects[k].x = tiles[k].x * f.n
                /\ map.rects[k].y = tiles[k].y * f.n
                /\ map.rects[k].width = tiles[k].width * f.n
                /\ map.rects[k].height = tiles[k].height * f.n
                /\ (map.rects[k].class = "tile-rect-empty") = tiles[k].isEmpty
                /\ map.rects[k].class \in {"tile-rect-empty", "tile-rect"}

\* the 600 x 400 design on the default bed: nine rectangles at scale 2/3,
\* the first empty and the last, 20 mm wide, not
C26_Witness ==
    /\ MapReturned
    /\ arg[1].svgInfo.detectedWidthMm = 600 /\ arg[1].svgInfo.detectedHeightMm = 400
    /\ Len(ret[1].rects) = 9
    /\ FracEq(ret[1].scale, Frac(2, 3))
    /\ ret[1].rects[1].class = "tile-rect-empty"
    /\ ret[1].rects[9].class = "tile-rect"
    /\ arg[1].tiles[9].width = 20
    /\ 3 * ret[1].rects[9].width = 2 * 20 * ret[1].scale.d

(***************************************************************************)
(* One batch at a time                                                     *)
(***************************************************************************)
\* C27: at most one tile batch is in progress at any time.  While a
\* processTiles run is pending isProcessing is true, also after a cancel
\* request the run has not observed yet; a step of handleGenerate that
\* starts a run is taken with isProcessing false and no run pending, and
\* it lowers the cancel flag; the flag is raised by a cancel request only.
\* So a cancellation a run observes was requested during that run.
C27_OneBatchAtATime ==
    /\ [](run.active => processingState.isProcessing /\ pc \in {"loop", "tile", "yield"})
    /\ [][ /\ lastOp'.op = "generate" =>
                /\ ~processingState.isProcessing /\ ~run.active /\ pc = "idle"
                /\ run'.active /\ ~cancelRef'
           /\ (cancelRef' /\ ~cancelRef) =>
                lastOp'.op = "cancel" /\ processingState.isProcessing
           /\ lastOp'.op = "cancelled" => run.active /\ cancelRef /\ ~run'.active ]_vars

\* a second batch, started after an earlier one stored its tiles, waits at
\* a yield with a cancel request it has not observed yet
C27_Witness ==
    /\ run.active /\ pc = "yield" /\ cancelRef
    /\ processingState.isProcessing /\ processingState.phase = "cancelled"
    /\ processedTiles # <<>>

(***************************************************************************)
(* What a completed batch stores                                           *)
(***************************************************************************)
\* the result list processTiles returns, seen from the step that ends the
\* batch: after the last tile, or after the wait that follows it
FinalResults ==
    IF pc = "yield" THEN run.results
    ELSE run.results \o processSingleTile(run.svgInfo, run.gridInfo.tiles[run.i + 1],
                                          run.gridInfo, run.settings).result

\* the stored records are the tiles of the batch's grid, one each, in scan
\* order
OneRecordPerTile(records, tiles) ==
    /\ Ids(records) = Ids(tiles)
    /\ \A j, k \in 1..Len(records) :
          j < k => \/ records[j].row < records[k].row
                   \/ records[j].row = records[k].row /\ records[j].col < records[k].col

\* C28: after a batch completes without cancellation processedTiles holds
\* exactly one record per tile of the grid, in scan order and with the same
\* ids; a record has svgContent iff a result was produced for it, every
\* record without a result has isEmpty = true, and every record with
\* isEmpty = false has svgContent.
C28_StoredRecordsMatchResults ==
    [][ lastOp'.op = "done" =>
          /\ OneRecordPerTile(processedTiles', run.tilesAtStart)
          /\ \A k \in 1..Len(processedTiles') :
                LET rec == processedTiles'[k]
                    result == find(FinalResults, rec.id)
                IN  /\ (rec.svgContent # None) <=> (result # None)
                    /\ result = None => rec.isEmpty
                    /\ ~rec.isEmpty => rec.svgContent # None ]_vars

(***************************************************************************)
(* Marks and the viewport of the tile document                             *)
(***************************************************************************)
\* C29: for valid settings and every mark configuration, each position
\* generateMarkPositions returns lies inside the viewport
\* [0, bedWidth] x [0, bedHeight] of the emitted tile document, for both
\* placements, also when overlap/2 exceeds the margin.
C29_MarksInsideViewport ==
    MarksReturned =>
      LET g == arg[1].gridInfo
          m == ret[1]
      IN  \A k \in 1..Len(m) :
            /\ 0 <= m[k].x2 /\ m[k].x2 <= 2 * g.tileWidth
            /\ 0 <= m[k].y2 /\ m[k].y2 <= 2 * g.tileHeight

(***************************************************************************)
(* Termination of a batch                                                  *)
(*                                                                         *)
(* processTiles runs on the host's event loop: once called, each iteration *)
(* runs to its await, and the animation frame it awaits arrives.  Nothing  *)
(* is assumed of the user's actions.                                       *)
(***************************************************************************)
\* a started batch, with the user free to cancel and to change settings
\* while it is pending and after it
NextLive ==
    \/ Poll
    \/ TileStep
    \/ Yielded
    \/ HandleCancel
    \/ ChangeSettings

SpecLive ==
    /\ InitBatch /\ [][NextLive]_vars
    /\ WF_vars(Poll) /\ WF_vars(TileStep) /\ WF_vars(Yielded)

\* C30: every started batch terminates.  A batch over a grid of N tiles
\* returns its results after exactly N tile steps or ends with cancellation
\* after fewer, and in both cases isProcessing becomes false again.
C30_BatchTerminates ==
    /\ [][ /\ lastOp'.op = "done" =>
                /\ run.active /\ ~run'.active /\ ~processingState'.isProcessing
                /\ (IF pc = "tile" THEN run.i + 1 ELSE run.i) = Len(run.tilesAtStart)
           /\ lastOp'.op = "cancelled" =>
                /\ run.active /\ ~run'.active /\ ~processingState'.isProcessing
                /\ run.i < Len(run.tilesAtStart)
           /\ (run.active /\ ~run'.active) => lastOp'.op \in {"done", "cancelled"} ]_vars
    /\ run.active ~> (~run.active /\ ~processingState.isProcessing)

\* a batch of four tiles ended by a cancellation after the first of them
C30_Witness ==
    /\ lastOp = Op("cancelled", 1, 4)
    /\ ~run.active /\ ~processingState.isProcessing

============================================================================
